---- MODULE Spec2Model ----
(***************************************************************************)
(* fumadocs-editor: the server boundary (src/src/server.ts), the loader    *)
(* plugin (src/src/plugin.ts), the edit modal                              *)
(* (src/src/components/EditModal.tsx), the provider                        *)
(* (src/src/components/EditorProvider.tsx) and the MDXEditor adapter with  *)
(* its debounced preview panel (src/unnamed/part_000), as state machines.  *)
(*                                                                         *)
(* Strings are sequences of one-character strings, so that toLowerCase,    *)
(* endsWith and a partially written file are computed, not assumed.        *)
(***************************************************************************)
EXTENDS Integers, Sequences, FiniteSets, TLC

VARIABLES
    fs,          \* storage: path -> "absent" | "dir" | content (node:fs)
    vp,          \* one validatePath call: its arguments and its result
    adapter,     \* the EditorAdapter given to EditorProvider / EditModal
    plugin,      \* one editorPlugin(config) and the loader storage it transforms
    nodeEnv,     \* process.env.NODE_ENV
    remarkInstalled, \* whether import('remark') / import('remark-mdx') resolve
    hs,          \* one route-handler invocation: request, locals, position, response
    mdxRemoteInstalled, \* whether import('@fumadocs/mdx-remote') resolves
    mdxCompiler, \* part_000 module variable: TRUE once the compiler is created
    editMetadata,\* EditorProvider: useState<EditMetadata | null>(null)
    isEditorOpen,\* EditorProvider: useState(false)
    session,     \* number of EditModal instances mounted so far (instance identity)
    modal,       \* EditModal: ModalState of the mounted instance
    editor,      \* MDXEditorComponent: its useState/useRef cells
    loads,       \* load fetches in flight (loadContent awaiting)
    saves,       \* save fetches in flight (EditModal.handleSave awaiting)
    panel,       \* PreviewPanel + useDebounce: debouncedValue, timer, preview state
    compiles,    \* the compile() calls of the mounted PreviewPanel, in start order
    doneOrder    \* the compile() calls that returned, in completion order

pathVars    == <<vp>>
serverVars  == <<nodeEnv, remarkInstalled, hs>>
clientVars  == <<isEditorOpen, session, modal, editor, loads, saves>>
previewVars == <<mdxRemoteInstalled, mdxCompiler, panel, compiles, doneOrder>>
vars == <<fs, vp, adapter, plugin, editMetadata, nodeEnv, remarkInstalled, hs, mdxRemoteInstalled, mdxCompiler,
          isEditorOpen, session, modal, editor, loads, saves, panel, compiles,
          doneOrder>>

\* what the steps of one component leave alone
ServerFrame  == UNCHANGED <<vp, adapter, plugin, editMetadata, clientVars, previewVars>>
PathFrame    == UNCHANGED <<fs, adapter, plugin, editMetadata, serverVars, clientVars, previewVars>>

(***************************************************************************)
(* Strings                                                                 *)
(***************************************************************************)
Range(s) == {s[i] : i \in 1..Len(s)}

\* String.prototype.toLowerCase on one character
LowerChar(c) ==
    CASE c = "A" -> "a"
      [] c = "D" -> "d"
      [] c = "M" -> "m"
      [] c = "X" -> "x"
      [] c = "T" -> "t"
      [] OTHER -> c

toLowerCase(s) == [i \in 1..Len(s) |-> LowerChar(s[i])]

\* String.prototype.endsWith
endsWith(s, suffix) ==
    /\ Len(suffix) <= Len(s)
    /\ SubSeq(s, Len(s) - Len(suffix) + 1, Len(s)) = suffix

\* node:path isAbsolute (posix): the path starts with "/"
isAbsolute(p) == Len(p) > 0 /\ p[1] = "/"

\* Array.prototype.join(', ')
RECURSIVE join(_)
join(list) ==
    IF Len(list) = 0 THEN <<>>
    ELSE IF Len(list) = 1 THEN list[1]
    ELSE list[1] \o <<",", " ">> \o join(Tail(list))

(***************************************************************************)
(* Sample data                                                             *)
(***************************************************************************)
MD   == <<".", "m", "d">>
MDX  == <<".", "m", "d", "x">>
MDUP == <<".", "M", "D">>
TXT  == <<".", "t", "x", "t">>

DocPath   == <<"/", "a", "/", "d", ".", "m", "d">>
UpperPath == <<"/", "a", "/", "D", ".", "M", "D">>
TxtPath   == <<"/", "d", ".", "t", "x", "t">>
RelPath   == <<"a", "/", "d", ".", "m", "d">>

\* the resources storage can hold in the model; every other path is absent
Files == {DocPath, UpperPath, TxtPath, RelPath}

PathDirs  == {<<>>, <<"/">>, <<"a", "/">>, <<"/", "a", "/">>}
PathStems == {<<"d">>, <<"D">>}
PathExts  == {MD, MDUP, MDX, TXT, <<>>}
SamplePaths == {d \o s \o e : d \in PathDirs, s \in PathStems, e \in PathExts}

DefaultExtensions == <<MDX, MD>>
AllowLists == {DefaultExtensions, <<MD>>, <<MDUP>>, <<TXT>>, <<MDUP, MDX>>, <<>>}

\* document contents: "<" opens a JSX tag that is never closed
ContentA == <<"a">>
ContentB == <<"b", "c">>
ContentBad == <<"<", "b">>
Contents == {ContentA, ContentB, ContentBad}
\* a string JSON.parse produces from "a\\ud800": it ends in a lone surrogate
ContentSurrogate == <<"a", "U+D800">>
\* the contents a POST body can carry
RequestContents == Contents \cup {ContentSurrogate}

\* config.endpoint ?? '/api/__fumadocs/edit'
DefaultEndpoint == "/api/__fumadocs/edit"
\* README, Quick Setup step 2: the handlers are exported from
\* app/api/fumadocs-edit/route.ts, so they serve this route
QuickSetupRoute == "/api/fumadocs-edit"
\* an endpoint given in the configuration
CustomEndpoint == "/api/edit"
NoEndpoint == "undefined"

\* file.data._edit: absent, or the EditMetadata injected
NoEdit == [absolutePath |-> <<>>, endpoint |-> NoEndpoint, enabled |-> FALSE]
EditMetadata(absolutePath, endpoint) ==
    [absolutePath |-> absolutePath, endpoint |-> endpoint, enabled |-> TRUE]

\* what storage holds at a path
Absent  == [kind |-> "absent"]
Dir     == [kind |-> "dir"]
File(c) == [kind |-> "file", content |-> c]

\* fs.existsSync: true for files and directories
existsSync(store, p) == p \in DOMAIN store /\ store[p].kind # "absent"

(***************************************************************************)
(* server.ts: validatePath                                                 *)
(***************************************************************************)
\* an error message: its fixed text and its interpolated part
Msg(text, arg) == [text |-> text, arg |-> arg]
Undefined      == Msg("undefined", <<>>)
ErrNotAbsolute == Msg("Path must be absolute", <<>>)
ErrNotFound    == Msg("File does not exist", <<>>)
ErrExtension(allowedExtensions) ==
    Msg("File must have extension: ", join(allowedExtensions))

\* allowedExtensions.some((ext) => filePath.toLowerCase().endsWith(ext))
hasValidExtension(filePath, allowedExtensions) ==
    \E i \in 1..Len(allowedExtensions) :
        endsWith(toLowerCase(filePath), allowedExtensions[i])

validatePathExtensionFirst(store, filePath, allowedExtensions) ==
    IF ~hasValidExtension(filePath, allowedExtensions)
        THEN [valid |-> FALSE, error |-> ErrExtension(allowedExtensions)]
    ELSE IF ~isAbsolute(filePath)
        THEN [valid |-> FALSE, error |-> ErrNotAbsolute]
    ELSE IF ~existsSync(store, filePath)
        THEN [valid |-> FALSE, error |-> ErrNotFound]
    ELSE [valid |-> TRUE, error |-> Undefined]

validatePathExistenceFirst(store, filePath, allowedExtensions) ==
    IF ~existsSync(store, filePath)
        THEN [valid |-> FALSE, error |-> ErrNotFound]
    ELSE IF ~isAbsolute(filePath)
        THEN [valid |-> FALSE, error |-> ErrNotAbsolute]
    ELSE IF ~hasValidExtension(filePath, allowedExtensions)
        THEN [valid |-> FALSE, error |-> ErrExtension(allowedExtensions)]
    ELSE [valid |-> TRUE, error |-> Undefined]

validatePathWithoutExistsSync(store, filePath, allowedExtensions) ==
    IF ~isAbsolute(filePath)
        THEN [valid |-> FALSE, error |-> ErrNotAbsolute]
    ELSE IF ~hasValidExtension(filePath, allowedExtensions)
        THEN [valid |-> FALSE, error |-> ErrExtension(allowedExtensions)]
    ELSE [valid |-> TRUE, error |-> Undefined]

validatePath(store, filePath, allowedExtensions) ==
    IF ~isAbsolute(filePath)
        THEN [valid |-> FALSE, error |-> ErrNotAbsolute]
    ELSE IF ~hasValidExtension(filePath, allowedExtensions)
        THEN [valid |-> FALSE, error |-> ErrExtension(allowedExtensions)]
    ELSE IF ~existsSync(store, filePath)
        THEN [valid |-> FALSE, error |-> ErrNotFound]
    ELSE [valid |-> TRUE, error |-> Undefined]

(***************************************************************************)
(* server.ts: validateMdxContent                                           *)
(***************************************************************************)
\* the first "<" that no later ">" closes, 0 when there is none: where
\* remark().use(remarkMdx).process(content) reports its syntax error
UnclosedTag(content) ==
    LET opens == {i \in 1..Len(content) :
                    /\ content[i] = "<"
                    /\ \A j \in (i + 1)..Len(content) : content[j] # ">"}
    IN IF opens = {} THEN 0
       ELSE CHOOSE i \in opens : \A k \in opens : i <= k

ParseError(line, column, message) ==
    [line |-> line, column |-> column, message |-> message]

\* { valid: true } carries no errors array
ValidResult == [valid |-> TRUE, hasErrors |-> FALSE, errors |-> <<>>]
NoValidation == [valid |-> FALSE, hasErrors |-> FALSE, errors |-> <<>>]

\* a thrown value as the catch clause reads it: err.line, err.column,
\* err.message; line/column 0 and the message NoMessage stand for undefined
Thrown(line, column, message) ==
    [line |-> line, column |-> column, message |-> message]
NoMessage == "undefined"
NoThrow == Thrown(0, 0, "no error")

\* the try block: what import('remark'), import('remark-mdx') or
\* remark().use(remarkMdx).process(content) throws. A failed import() has no
\* position; a parse error is a VFileMessage with line, column and reason.
tryParse(installed, content) ==
    IF ~installed
        THEN Thrown(0, 0, "Cannot find package 'remark'")
    ELSE IF UnclosedTag(content) # 0
        THEN Thrown(1, UnclosedTag(content), "Unexpected end of file in name")
    ELSE NoThrow

catchResultWithoutErrors(err) ==
    [valid |-> FALSE, hasErrors |-> TRUE, errors |-> <<>>]

\* the catch clause: one entry, message: err.message ?? 'Invalid MDX syntax'
catchResult(err) ==
    [valid |-> FALSE, hasErrors |-> TRUE,
     errors |-> <<ParseError(err.line, err.column,
                             IF err.message = NoMessage
                                THEN "Invalid MDX syntax" ELSE err.message)>>]

validateMdxContentOncePerError(installed, content) ==
    LET err == tryParse(installed, content)
    IN IF err = NoThrow \/ modal.validation.hasErrors
         THEN ValidResult ELSE catchResult(err)

validateMdxContent(installed, content) ==
    LET err == tryParse(installed, content)
    IN IF err = NoThrow THEN ValidResult ELSE catchResult(err)

(***************************************************************************)
(* node:fs writeFileSync / readFileSync                                    *)
(***************************************************************************)
Prefixes(c) == {SubSeq(c, 1, k) : k \in 0..(Len(c) - 1)}

\* a UTF-16 code unit that is half of a surrogate pair, standing alone, and
\* the character its UTF-8 encoding decodes to
LoneSurrogate   == "U+D800"
ReplacementChar == "U+FFFD"

\* the 'utf-8' encoding argument: what the bytes written for a JavaScript
\* string decode to (a lone surrogate is encoded as EF BF BD)
utf8(str) ==
    [i \in 1..Len(str) |-> IF str[i] = LoneSurrogate THEN ReplacementChar
                                                     ELSE str[i]]

\* writeFileSync(filePath, content): open with O_TRUNC | O_CREAT, write, close.
\* It returns having stored everything, throws before the file is opened
\* (EISDIR, EACCES), or throws after truncation with a prefix stored (ENOSPC, EIO).
writeFileSyncAppending(store, filePath, content) ==
    IF store[filePath].kind = "dir"
        THEN {[store |-> store, threw |-> TRUE, message |-> <<"EISDIR">>]}
    ELSE {[store |-> [store EXCEPT ![filePath] =
                        File((IF store[filePath].kind = "file"
                                THEN store[filePath].content ELSE <<>>)
                             \o utf8(content))],
           threw |-> FALSE, message |-> <<"none">>],
          [store |-> store, threw |-> TRUE, message |-> <<"EACCES">>]}

writeFileSync(store, filePath, content) ==
    IF store[filePath].kind = "dir"
        THEN {[store |-> store, threw |-> TRUE, message |-> <<"EISDIR">>]}
    ELSE {[store |-> [store EXCEPT ![filePath] = File(utf8(content))],
           threw |-> FALSE, message |-> <<"none">>],
          [store |-> store, threw |-> TRUE, message |-> <<"EACCES">>]}
         \cup {[store |-> [store EXCEPT ![filePath] = File(part)],
                threw |-> TRUE, message |-> <<"ENOSPC">>] :
                  part \in Prefixes(utf8(content))}

\* readFileSync(filePath, 'utf-8')
readFileSync(store, filePath) ==
    IF store[filePath].kind = "file"
        THEN {[content |-> store[filePath].content, threw |-> FALSE, message |-> <<"none">>],
              [content |-> <<>>, threw |-> TRUE, message |-> <<"EACCES">>]}
    ELSE IF store[filePath].kind = "dir"
        THEN {[content |-> <<>>, threw |-> TRUE, message |-> <<"EISDIR">>]}
    ELSE {[content |-> <<>>, threw |-> TRUE, message |-> <<"ENOENT">>]}

(***************************************************************************)
(* server.ts: responses                                                    *)
(***************************************************************************)
\* SaveResponse / read result as sent: the HTTP status and the JSON body
Response(status, success, error, validation, content) ==
    [status |-> status, success |-> success, error |-> error,
     validation |-> validation, content |-> content]

NoResponse == Response(0, FALSE, Undefined, NoValidation, <<>>)
ErrDevOnly == Msg("Editor only available in development", <<>>)
ErrInvalid == Msg("Invalid MDX content", <<>>)
ErrMissingPath == Msg("Missing path parameter", <<>>)
ErrBody    == Msg("Unexpected token in JSON", <<>>)
ErrWrite(m) == Msg("Failed to write file: ", m)
ErrRead(m)  == Msg("Failed to read file: ", m)

\* HTTP statuses the handlers answer with
Forbidden   == 403
BadRequest  == 400
ServerError == 500
Ok          == 200

(***************************************************************************)
(* server.ts: handleSaveRequest, readFileContent and the route handlers    *)
(***************************************************************************)
\* one invocation of a route handler: the request (malformed: its body is
\* not JSON), the locals of handleSaveRequest (pathValidation,
\* contentValidation), the calls made so far, where it is suspended, and the
\* response once it has returned
Handler(kind, pc, malformed, path, content) ==
    [kind |-> kind, pc |-> pc, malformed |-> malformed,
     path |-> path, content |-> content,
     pathValidation |-> [valid |-> FALSE, error |-> Undefined],
     contentValidation |-> NoValidation,
     calls |-> {}, raised |-> {}, resp |-> NoResponse]

NoHandler == Handler("none", "idle", FALSE, <<>>, <<>>)

Finish(h, resp) == [h EXCEPT !.pc = "done", !.resp = resp]

Called(h, fn) == [h EXCEPT !.calls = @ \cup {fn}]

\* an exception propagated out of the functions fns
Raised(h, fns) == [h EXCEPT !.raised = @ \cup fns]

DevGateOnlyProduction(env) == env = "production"

\* if (process.env.NODE_ENV !== 'development') return 403
DevGate(env) == env # "development"

NodeEnvs == {"development", "production", "test"}

\* the paths a request can name: the stored resources and one that never exists
RequestPaths == Files \cup {<<"/", "n", ".", "m", "d">>}

\* the `path` of a body that parsed but has no string there, such as {}
UndefinedPath == <<"undefined">>
\* TypeError [ERR_INVALID_ARG_TYPE] of node:path isAbsolute
ErrArgType == Msg("The \"path\" argument must be of type string. Received ",
                  UndefinedPath)

\* createNextHandler: the gate, then `await request.json()`
PostArrive(malformed, p, c) ==
    /\ hs.pc \in {"idle", "done"}
    /\ LET h == Handler("save", "json", malformed,
                        IF malformed THEN <<>> ELSE p,
                        IF malformed THEN <<>> ELSE c)
       IN hs' = IF DevGate(nodeEnv)
                  THEN Finish(h, Response(Forbidden, FALSE, ErrDevOnly,
                                          NoValidation, <<>>))
                  ELSE h
    /\ UNCHANGED <<fs, nodeEnv, remarkInstalled>>

\* a POST from any client
PostRequest ==
    /\ \E malformed \in BOOLEAN, p \in RequestPaths \cup {UndefinedPath},
          c \in RequestContents :
         PostArrive(malformed, p, c)
    /\ ServerFrame

PostBodyContentFirst ==
    /\ hs.kind = "save" /\ hs.pc = "json"
    /\ IF hs.malformed
         THEN hs' = Finish(hs, Response(ServerError, FALSE, ErrBody,
                                        NoValidation, <<>>))
         ELSE LET cv == validateMdxContent(remarkInstalled, hs.content)
                  h  == [Called(hs, "validateMdxContent")
                            EXCEPT !.contentValidation = cv]
                  pv == validatePath(fs, hs.path, DefaultExtensions)
              IN hs' = IF ~cv.valid
                          THEN Finish(h, Response(BadRequest, FALSE, ErrInvalid,
                                                  cv, <<>>))
                       ELSE IF ~pv.valid
                          THEN Finish([Called(h, "validatePath")
                                          EXCEPT !.pathValidation = pv],
                                      Response(BadRequest, FALSE, pv.error,
                                               NoValidation, <<>>))
                          ELSE [Called(h, "validatePath")
                                   EXCEPT !.pathValidation = pv,
                                          !.pc = "validating"]
    /\ UNCHANGED <<fs, nodeEnv, remarkInstalled>>
    /\ ServerFrame

\* the body arrives: the catch of createNextHandler (request.json() rejected,
\* or isAbsolute threw inside validatePath for a path that is not a string),
\* or handleSaveRequest up to `await validateMdxContent(content)`
\* (validatePath is synchronous)
PostBody ==
    /\ hs.kind = "save" /\ hs.pc = "json"
    /\ IF hs.malformed
         THEN hs' = Finish(hs, Response(ServerError, FALSE, ErrBody,
                                        NoValidation, <<>>))
         ELSE IF hs.path = UndefinedPath
         THEN hs' = Finish(Raised(Called(hs, "validatePath"),
                                  {"validatePath", "handleSaveRequest"}),
                           Response(ServerError, FALSE, ErrArgType,
                                    NoValidation, <<>>))
         ELSE LET pv == validatePath(fs, hs.path, DefaultExtensions)
                  h  == [Called(hs, "validatePath") EXCEPT !.pathValidation = pv]
              IN hs' = IF ~pv.valid
                          THEN Finish(h, Response(BadRequest, FALSE, pv.error,
                                                  NoValidation, <<>>))
                          ELSE [Called(h, "validateMdxContent")
                                   EXCEPT !.pc = "validating"]
    /\ UNCHANGED <<fs, nodeEnv, remarkInstalled>>
    /\ ServerFrame

PostValidatedWriteAnyway ==
    /\ hs.kind = "save" /\ hs.pc = "validating"
    /\ LET cv == validateMdxContent(remarkInstalled, hs.content)
           h  == [Called(hs, "writeFileSync") EXCEPT !.contentValidation = cv]
       IN \E w \in writeFileSync(fs, hs.path, hs.content) :
             /\ fs' = w.store
             /\ hs' = Finish(h,
                   IF ~cv.valid
                     THEN Response(BadRequest, FALSE, ErrInvalid, cv, <<>>)
                   ELSE IF w.threw
                     THEN Response(BadRequest, FALSE, ErrWrite(w.message),
                                   NoValidation, <<>>)
                     ELSE Response(Ok, TRUE, Undefined, NoValidation, <<>>))
    /\ UNCHANGED <<nodeEnv, remarkInstalled>>
    /\ ServerFrame

\* validateMdxContent resolves: the rest of handleSaveRequest, which is
\* synchronous (the check of contentValidation, then writeFileSync)
PostValidated ==
    /\ hs.kind = "save" /\ hs.pc = "validating"
    /\ LET cv == validateMdxContent(remarkInstalled, hs.content)
           h  == [hs EXCEPT !.contentValidation = cv]
       IN IF ~cv.valid
            THEN /\ hs' = Finish(h, Response(BadRequest, FALSE, ErrInvalid,
                                             cv, <<>>))
                 /\ fs' = fs
            ELSE \E w \in writeFileSync(fs, hs.path, hs.content) :
                   /\ fs' = w.store
                   /\ hs' = Finish(Called(h, "writeFileSync"),
                         IF w.threw
                           THEN Response(BadRequest, FALSE, ErrWrite(w.message),
                                         NoValidation, <<>>)
                           ELSE Response(Ok, TRUE, Undefined, NoValidation, <<>>))
    /\ UNCHANGED <<nodeEnv, remarkInstalled>>
    /\ ServerFrame

\* createNextReadHandler with readFileContent: synchronous throughout.
\* An empty path stands for a request without the `path` parameter.
GetArrive(p) ==
    /\ hs.pc \in {"idle", "done"}
    /\ LET h  == Handler("read", "done", FALSE, p, <<>>)
           pv == validatePath(fs, p, DefaultExtensions)
           hv == [Called(h, "validatePath") EXCEPT !.pathValidation = pv]
       IN IF DevGate(nodeEnv)
            THEN hs' = Finish(h, Response(Forbidden, FALSE, ErrDevOnly,
                                          NoValidation, <<>>))
          ELSE IF p = <<>>
            THEN hs' = Finish(h, Response(BadRequest, FALSE, ErrMissingPath,
                                          NoValidation, <<>>))
          ELSE IF ~pv.valid
            THEN hs' = Finish(hv, Response(BadRequest, FALSE, pv.error,
                                           NoValidation, <<>>))
          ELSE \E r \in readFileSync(fs, p) :
                 hs' = Finish(Called(hv, "readFileSync"),
                   IF r.threw
                     THEN Response(BadRequest, FALSE, ErrRead(r.message),
                                   NoValidation, <<>>)
                     ELSE Response(Ok, TRUE, Undefined, NoValidation, r.content))
    /\ UNCHANGED <<fs, nodeEnv, remarkInstalled>>

\* a GET from any client
GetRequest ==
    /\ \E p \in RequestPaths \cup {<<>>} : GetArrive(p)
    /\ ServerFrame

\* another program creates, replaces or removes a resource
ExternalChange ==
    /\ \E p \in Files, st \in {Absent, Dir, File(ContentA)} :
         /\ fs[p] # st
         /\ fs' = [fs EXCEPT ![p] = st]
    /\ UNCHANGED <<nodeEnv, remarkInstalled, hs>>
    /\ ServerFrame

(***************************************************************************)
(* part_000: useDebounce and PreviewPanel                                  *)
(***************************************************************************)
\* useDebounce(content, 300)
DebounceDelay == 300
\* the granularity of time in the model, in ms
TickMs == 100
\* compile() calls started in one run of the model
MaxCompiles == 3

NoTimer == [pending |-> FALSE, value |-> <<>>, elapsed |-> 0, edited |-> FALSE]
\* setTimeout(() => setDebouncedValue(value), delay); `edited` tells the timer
\* set for an edit from the one set when the hook mounts. A timer that has
\* fired keeps its fields with pending = FALSE.
Timer(v, edited) ==
    [pending |-> TRUE, value |-> v, elapsed |-> 0, edited |-> edited]

\* the `preview` state of PreviewPanel; `content` is the source whose
\* rendering is held, when hasContent
Preview(status, hasContent, content, error) ==
    [status |-> status, hasContent |-> hasContent, content |-> content,
     error |-> error]

ErrNoCompiler  ==
    Msg("Preview requires @fumadocs/mdx-remote. Install it with: pnpm add @fumadocs/mdx-remote",
        <<>>)
ErrCompilation == Msg("Compilation failed", <<>>)

NoPanel == [mounted |-> FALSE, debounced |-> <<>>, timer |-> NoTimer,
            preview |-> Preview("loading", FALSE, <<>>, Undefined)]

\* one compile() call: its source, the `cancelled` flag of its effect,
\* whether compiler.compile is still pending, and which run of the effect
\* made the call ("mount" or "debounce")
Compile(src, trigger) ==
    [src |-> src, cancelled |-> FALSE, running |-> TRUE, trigger |-> trigger]

\* the effect cleanup: cancelled = true
CancelAll(cs) == [i \in 1..Len(cs) |-> [cs[i] EXCEPT !.cancelled = TRUE]]

\* the compile effect: the cleanup of the previous run, then compile() up to
\* `await compiler.compile(...)`. PreviewPanel is rendered only once
\* loadMDXCompiler has returned the compiler, so `await loadMDXCompiler()`
\* returns the cached one within the same task.
RunCompileEffect(pn, cs, src, cached, trigger) ==
    IF cached
      THEN [panel |-> [pn EXCEPT !.preview.status = "loading"],
            compiles |-> Append(CancelAll(cs), Compile(src, trigger))]
      ELSE [panel |-> [pn EXCEPT !.preview =
                          Preview("error", FALSE, <<>>, ErrNoCompiler)],
            compiles |-> CancelAll(cs)]

\* PreviewPanel mounts: useState initial values, then both effects
MountPanel(content, cs, cached) ==
    RunCompileEffect([mounted |-> TRUE, debounced |-> content,
                      timer |-> Timer(content, FALSE),
                      preview |-> Preview("loading", FALSE, <<>>, Undefined)],
                     cs, content, cached, "mount")

(***************************************************************************)
(* part_000: MDXEditorComponent                                            *)
(***************************************************************************)
ViewModes == {"editor", "preview", "split"}
showEditor(mode)  == mode \in {"editor", "split"}
showPreview(mode) == mode \in {"preview", "split"}

NoEditor ==
    [mounted |-> FALSE, isLoaded |-> FALSE, previewCheck |-> FALSE,
     hasChanges |-> FALSE, isSaving |-> FALSE, currentContent |-> <<>>,
     viewMode |-> "split", previewAvailable |-> FALSE, markdown |-> <<>>]

\* the component mounts: every useState at its initial value (enablePreview
\* and initialViewMode at their defaults, true and 'split'); previewCheck is
\* the pending loadMDXCompiler().then(...) of the mount effect
MountEditor(initialContent) ==
    [mounted |-> TRUE, isLoaded |-> FALSE, previewCheck |-> TRUE,
     hasChanges |-> FALSE, isSaving |-> FALSE, currentContent |-> initialContent,
     viewMode |-> "split", previewAvailable |-> FALSE, markdown |-> <<>>]

\* whether the third-party <EditorComponent ref={editorRef}> is rendered
\* (editorRef.current is set exactly then)
InnerMounted(e) == e.mounted /\ e.isLoaded /\ showEditor(e.viewMode)

\* whether <PreviewPanel> is rendered
PanelRendered(e) ==
    e.mounted /\ e.isLoaded /\ showPreview(e.viewMode) /\ e.previewAvailable

\* the editor after a render: MDXEditor keeps its document while it stays
\* mounted, starts from markdown={initialContent} when it mounts, and has
\* none when it is not rendered
Rendered(e, e2, initialContent) ==
    [e2 EXCEPT !.markdown =
        IF ~InnerMounted(e2) THEN <<>>
        ELSE IF InnerMounted(e) THEN e2.markdown
        ELSE initialContent]

\* PreviewPanel after a render: unmounted (cleanups: clearTimeout, cancelled
\* = true), mounted, or kept with useDebounce's effect re-run when `content`
\* changed
PanelAfter(e, e2, pn, cs, cached) ==
    IF ~PanelRendered(e2)
        THEN [panel |-> NoPanel, compiles |-> CancelAll(cs)]
    ELSE IF ~PanelRendered(e)
        THEN MountPanel(e2.currentContent, cs, cached)
    ELSE IF e2.currentContent # e.currentContent
        THEN [panel |-> [pn EXCEPT !.timer = Timer(e2.currentContent, TRUE)],
              compiles |-> cs]
    ELSE [panel |-> pn, compiles |-> cs]

\* a state update of MDXEditorComponent and the render that follows
SetEditor(e2, initialContent, cached) ==
    /\ (PanelRendered(e2) /\ ~PanelRendered(editor)) => Len(compiles) < MaxCompiles
    /\ editor' = Rendered(editor, e2, initialContent)
    /\ panel' = PanelAfter(editor, e2, panel, compiles, cached).panel
    /\ compiles' = PanelAfter(editor, e2, panel, compiles, cached).compiles
    /\ UNCHANGED <<doneOrder, mdxRemoteInstalled>>

\* time passes while the debounce timer is pending
Tick ==
    /\ panel.mounted /\ panel.timer.pending
    /\ panel.timer.elapsed < DebounceDelay
    /\ panel' = [panel EXCEPT !.timer.elapsed =
                    IF @ + TickMs > DebounceDelay THEN DebounceDelay
                    ELSE @ + TickMs]
    /\ UNCHANGED <<mdxRemoteInstalled, mdxCompiler, compiles, doneOrder>>
    /\ UNCHANGED <<fs, serverVars, vp, adapter, plugin, editMetadata, clientVars>>

DebounceDueAtOnce(timer) == timer.elapsed >= 0

\* setTimeout(..., delay): the callback is due once `delay` has passed
DebounceDue(timer) == timer.elapsed >= DebounceDelay

\* the timer callback: setDebouncedValue(value). React bails out when the
\* value is the one already held; otherwise PreviewPanel renders again and
\* its compile effect runs for the new debouncedContent
DebounceFire ==
    /\ panel.mounted /\ panel.timer.pending
    /\ DebounceDue(panel.timer)
    /\ IF panel.timer.value = panel.debounced
         THEN /\ panel' = [panel EXCEPT !.timer.pending = FALSE]
              /\ UNCHANGED compiles
         ELSE /\ Len(compiles) < MaxCompiles
              /\ LET ran == RunCompileEffect(
                                [panel EXCEPT !.timer.pending = FALSE,
                                              !.debounced = panel.timer.value],
                                compiles, panel.timer.value, mdxCompiler,
                                "debounce")
                 IN /\ panel' = ran.panel
                    /\ compiles' = ran.compiles
    /\ UNCHANGED <<mdxRemoteInstalled, mdxCompiler, doneOrder>>
    /\ UNCHANGED <<fs, serverVars, vp, adapter, plugin, editMetadata, clientVars>>

\* what compile() sets once compiler.compile has settled: the rendering of
\* the source, or the error of the catch
Compiled(src) ==
    IF UnclosedTag(src) # 0
      THEN Preview("error", FALSE, <<>>, ErrCompilation)
      ELSE Preview("ready", TRUE, src, Undefined)

CompileResolveIgnoringCancelled ==
    /\ \E i \in 1..Len(compiles) :
         /\ compiles[i].running
         /\ compiles' = [compiles EXCEPT ![i].running = FALSE]
         /\ doneOrder' = Append(doneOrder, i)
         /\ panel' = IF panel.mounted
                       THEN [panel EXCEPT !.preview = Compiled(compiles[i].src)]
                       ELSE panel
    /\ UNCHANGED <<mdxRemoteInstalled, mdxCompiler>>
    /\ UNCHANGED <<fs, serverVars, vp, adapter, plugin, editMetadata, clientVars>>

CompileResolveEscalating ==
    /\ \E i \in 1..Len(compiles) :
         /\ compiles[i].running
         /\ compiles' = [compiles EXCEPT ![i].running = FALSE]
         /\ doneOrder' = Append(doneOrder, i)
         /\ panel' = IF compiles[i].cancelled
                       THEN panel
                       ELSE [panel EXCEPT !.preview = Compiled(compiles[i].src)]
         /\ modal' = IF ~compiles[i].cancelled
                        /\ Compiled(compiles[i].src).status = "error"
                       THEN [modal EXCEPT !.status = "error",
                                          !.error = ErrCompilation]
                       ELSE modal
    /\ UNCHANGED <<mdxRemoteInstalled, mdxCompiler>>
    /\ UNCHANGED <<fs, serverVars, vp, adapter, plugin, editMetadata, isEditorOpen, session, editor, loads, saves>>

CompileResolveDroppingErrors ==
    /\ \E i \in 1..Len(compiles) :
         /\ compiles[i].running
         /\ compiles' = [compiles EXCEPT ![i].running = FALSE]
         /\ doneOrder' = Append(doneOrder, i)
         /\ panel' = IF compiles[i].cancelled
                         \/ Compiled(compiles[i].src).status = "error"
                       THEN panel
                       ELSE [panel EXCEPT !.preview = Compiled(compiles[i].src)]
    /\ UNCHANGED <<mdxRemoteInstalled, mdxCompiler>>
    /\ UNCHANGED <<fs, serverVars, vp, adapter, plugin, editMetadata, clientVars>>

CompileResolveCheckingOnlyTry ==
    /\ \E i \in 1..Len(compiles) :
         /\ compiles[i].running
         /\ compiles' = [compiles EXCEPT ![i].running = FALSE]
         /\ doneOrder' = Append(doneOrder, i)
         /\ panel' = IF \/ ~panel.mounted
                         \/ /\ compiles[i].cancelled
                            /\ Compiled(compiles[i].src).status = "ready"
                       THEN panel
                       ELSE [panel EXCEPT !.preview = Compiled(compiles[i].src)]
    /\ UNCHANGED <<mdxRemoteInstalled, mdxCompiler>>
    /\ UNCHANGED <<fs, serverVars, vp, adapter, plugin, editMetadata, clientVars>>

\* compile() after `await compiler.compile(...)`: `if (cancelled) return`
\* in both the try and the catch
CompileResolve ==
    /\ \E i \in 1..Len(compiles) :
         /\ compiles[i].running
         /\ compiles' = [compiles EXCEPT ![i].running = FALSE]
         /\ doneOrder' = Append(doneOrder, i)
         /\ panel' = IF compiles[i].cancelled
                       THEN panel
                       ELSE [panel EXCEPT !.preview = Compiled(compiles[i].src)]
    /\ UNCHANGED <<mdxRemoteInstalled, mdxCompiler>>
    /\ UNCHANGED <<fs, serverVars, vp, adapter, plugin, editMetadata, clientVars>>

(***************************************************************************)
(* EditorProvider.tsx / EditModal.tsx                                      *)
(***************************************************************************)
\* EditModal instances mounted in one run of the model
MaxSessions == 2
\* save fetches in flight at once
MaxSaves == 3

\* the page of the specifications in which one page stays registered: its
\* absolutePath, and the EditMetadata the plugin injects for it
EditPath == DocPath
PageEdit == EditMetadata(EditPath, DefaultEndpoint)

\* ModalState
Modal(status, content, error, validation) ==
    [status |-> status, content |-> content, error |-> error,
     validation |-> validation]

NoModal == Modal("closed", <<>>, Undefined, NoValidation)

ErrFetch == Msg("Failed to fetch", <<>>)

\* {isEditorOpen && editMetadata && (<EditModal ... />)}
ModalRendered == isEditorOpen /\ editMetadata # NoEdit

\* the EditModal instance `sess` is the one mounted now
Live(sess) == ModalRendered /\ session = sess

\* a fetch of the instance `sess`, with the path it names:
\* ?path=${encodeURIComponent(editMetadata.absolutePath)} of loadContent,
\* { path: editMetadata.absolutePath, content } of handleSave
FetchFor(sess, content, path) ==
    [sess |-> sess, content |-> content, phase |-> "sent", path |-> path]
Fetch(sess, content) == FetchFor(sess, content, editMetadata.absolutePath)

Without(seq, i) == SubSeq(seq, 1, i - 1) \o SubSeq(seq, i + 1, Len(seq))

\* the model leaves the handler free once its response is taken
ServerKept == UNCHANGED <<fs, nodeEnv, remarkInstalled, hs, vp, adapter, plugin, editMetadata>>

\* openEditor: setIsEditorOpen(true); EditModal mounts in 'loading' and its
\* effect issues the load fetch
OpenEditor ==
    /\ editMetadata.enabled
    /\ ~isEditorOpen
    /\ session < MaxSessions
    /\ isEditorOpen' = TRUE
    /\ session' = session + 1
    /\ modal' = Modal("loading", <<>>, Undefined, NoValidation)
    /\ loads' = Append(loads, Fetch(session + 1, <<>>))
    /\ UNCHANGED <<editor, saves, previewVars>>
    /\ ServerKept

\* the GET reaches createNextReadHandler
ServeLoad ==
    /\ hs.pc = "idle"
    /\ \E i \in 1..Len(loads) :
         /\ loads[i].phase = "sent"
         /\ loads' = [loads EXCEPT ![i].phase = "serving"]
         /\ GetArrive(loads[i].path)
    /\ UNCHANGED <<isEditorOpen, session, modal, editor, saves, previewVars, vp, adapter, plugin, editMetadata>>

LoadResponseIgnoringError ==
    /\ hs.kind = "read" /\ hs.pc = "done"
    /\ \E i \in 1..Len(loads) :
         /\ loads[i].phase = "serving"
         /\ loads' = Without(loads, i)
         /\ IF ~Live(loads[i].sess)
              THEN UNCHANGED <<modal, editor, previewVars>>
            ELSE /\ modal' = Modal("ready", hs.resp.content, Undefined,
                                   NoValidation)
                 /\ SetEditor(IF editor.mounted THEN editor
                              ELSE MountEditor(hs.resp.content),
                              hs.resp.content, mdxCompiler)
                 /\ UNCHANGED mdxCompiler
    /\ hs' = NoHandler
    /\ UNCHANGED <<isEditorOpen, session, saves, fs, nodeEnv, remarkInstalled, vp, adapter, plugin, editMetadata>>

LoadResponseDroppingError ==
    /\ hs.kind = "read" /\ hs.pc = "done"
    /\ \E i \in 1..Len(loads) :
         /\ loads[i].phase = "serving"
         /\ loads' = Without(loads, i)
         /\ IF ~Live(loads[i].sess) \/ hs.resp.error # Undefined
              THEN UNCHANGED <<modal, editor, previewVars>>
            ELSE /\ modal' = Modal("ready", hs.resp.content, Undefined,
                                   NoValidation)
                 /\ SetEditor(IF editor.mounted THEN editor
                              ELSE MountEditor(hs.resp.content),
                              hs.resp.content, mdxCompiler)
                 /\ UNCHANGED mdxCompiler
    /\ hs' = NoHandler
    /\ UNCHANGED <<isEditorOpen, session, saves, fs, nodeEnv, remarkInstalled, vp, adapter, plugin, editMetadata>>

\* loadContent after `await response.json()`
LoadResponse ==
    /\ hs.kind = "read" /\ hs.pc = "done"
    /\ \E i \in 1..Len(loads) :
         /\ loads[i].phase = "serving"
         /\ loads' = Without(loads, i)
         /\ IF ~Live(loads[i].sess)
              THEN UNCHANGED <<modal, editor, previewVars>>
            ELSE IF hs.resp.error # Undefined
              THEN /\ modal' = Modal("error", <<>>, hs.resp.error, NoValidation)
                   /\ SetEditor(NoEditor, <<>>, mdxCompiler)
                   /\ UNCHANGED mdxCompiler
            ELSE /\ modal' = Modal("ready", hs.resp.content, Undefined,
                                   NoValidation)
                 /\ SetEditor(IF editor.mounted THEN editor
                              ELSE MountEditor(hs.resp.content),
                              hs.resp.content, mdxCompiler)
                 /\ UNCHANGED mdxCompiler
    /\ hs' = NoHandler
    /\ UNCHANGED <<isEditorOpen, session, saves, fs, nodeEnv, remarkInstalled, vp, adapter, plugin, editMetadata>>

\* the load fetch rejects, or its response is not JSON: the catch of loadContent
LoadFails ==
    /\ \E i \in 1..Len(loads) :
         /\ \/ loads[i].phase = "sent" /\ UNCHANGED hs
            \/ /\ loads[i].phase = "serving"
               /\ hs.kind = "read" /\ hs.pc = "done"
               /\ hs' = NoHandler
         /\ loads' = Without(loads, i)
         /\ IF Live(loads[i].sess)
              THEN /\ modal' = Modal("error", <<>>, ErrFetch, NoValidation)
                   /\ SetEditor(NoEditor, <<>>, mdxCompiler)
                   /\ UNCHANGED mdxCompiler
              ELSE UNCHANGED <<modal, editor, previewVars>>
    /\ UNCHANGED <<isEditorOpen, session, saves>>
    /\ UNCHANGED <<fs, nodeEnv, remarkInstalled, vp, adapter, plugin, editMetadata>>

\* loadMDXEditor().then(...): setPlugins, setEditorComponent, setIsLoaded(true)
EditorLoaded ==
    /\ editor.mounted /\ ~editor.isLoaded
    /\ SetEditor([editor EXCEPT !.isLoaded = TRUE], modal.content, mdxCompiler)
    /\ UNCHANGED <<isEditorOpen, session, modal, loads, saves, mdxCompiler>>
    /\ ServerKept

PreviewCheckedAssumingCompiler ==
    /\ editor.mounted /\ editor.previewCheck
    /\ LET compiler == mdxCompiler \/ mdxRemoteInstalled
       IN /\ mdxCompiler' = compiler
          /\ SetEditor([editor EXCEPT !.previewCheck = FALSE,
                                      !.previewAvailable = TRUE],
                       modal.content, compiler)
    /\ UNCHANGED <<isEditorOpen, session, modal, loads, saves>>
    /\ ServerKept

\* loadMDXCompiler().then(...) of the mount effect: setPreviewAvailable, and
\* setViewMode('editor') when there is no compiler
PreviewChecked ==
    /\ editor.mounted /\ editor.previewCheck
    /\ LET compiler == mdxCompiler \/ mdxRemoteInstalled
       IN /\ mdxCompiler' = compiler
          /\ SetEditor([editor EXCEPT !.previewCheck = FALSE,
                                      !.previewAvailable = compiler,
                                      !.viewMode = IF compiler THEN @ ELSE "editor"],
                       modal.content, compiler)
    /\ UNCHANGED <<isEditorOpen, session, modal, loads, saves>>
    /\ ServerKept

EditWithoutCurrentContent ==
    /\ InnerMounted(editor)
    /\ \E c \in Contents :
         /\ c # editor.markdown
         /\ SetEditor([editor EXCEPT !.markdown = c,
                                     !.hasChanges = TRUE],
                      modal.content, mdxCompiler)
    /\ UNCHANGED <<isEditorOpen, session, modal, loads, saves, mdxCompiler>>
    /\ ServerKept

\* the user changes the document: MDXEditor's onChange runs handleChange
Edit ==
    /\ InnerMounted(editor)
    /\ \E c \in Contents :
         /\ c # editor.markdown
         /\ SetEditor([editor EXCEPT !.markdown = c,
                                     !.hasChanges = TRUE,
                                     !.currentContent = c],
                      modal.content, mdxCompiler)
    /\ UNCHANGED <<isEditorOpen, session, modal, loads, saves, mdxCompiler>>
    /\ ServerKept

\* ViewModeToggle: Split and Preview are offered only when previewAvailable
ToggleView ==
    /\ editor.mounted /\ editor.isLoaded
    /\ \E m \in ViewModes :
         /\ m # editor.viewMode
         /\ m = "editor" \/ editor.previewAvailable
         /\ SetEditor([editor EXCEPT !.viewMode = m], modal.content, mdxCompiler)
    /\ UNCHANGED <<isEditorOpen, session, modal, loads, saves, mdxCompiler>>
    /\ ServerKept

handleSaveWithoutFlag ==
    /\ InnerMounted(editor) /\ ~editor.isSaving
    /\ Len(saves) < MaxSaves
    /\ editor' = editor
    /\ modal' = [modal EXCEPT !.status = "saving"]
    /\ saves' = Append(saves, Fetch(session, editor.markdown))
    /\ UNCHANGED <<isEditorOpen, session, loads, previewVars>>
    /\ ServerKept

\* MDXEditorComponent.handleSave up to `await onSave(markdown)`, with
\* EditModal.handleSave up to `await fetch(...)`
handleSave ==
    /\ InnerMounted(editor) /\ ~editor.isSaving
    /\ Len(saves) < MaxSaves
    /\ editor' = [editor EXCEPT !.isSaving = TRUE]
    /\ modal' = [modal EXCEPT !.status = "saving"]
    /\ saves' = Append(saves, Fetch(session, editor.markdown))
    /\ UNCHANGED <<isEditorOpen, session, loads, previewVars>>
    /\ ServerKept

\* the Save button: disabled={!hasChanges || isSaving}
ClickSave ==
    /\ editor.mounted /\ editor.isLoaded
    /\ editor.hasChanges /\ ~editor.isSaving
    /\ handleSave

KeySaveWithoutDirtyCheck ==
    /\ editor.mounted
    /\ ~editor.isSaving
    /\ handleSave

\* Cmd/Ctrl+S: if (hasChanges && !isSaving) handleSave()
KeySave ==
    /\ editor.mounted
    /\ editor.hasChanges /\ ~editor.isSaving
    /\ handleSave

\* the POST reaches createNextHandler
ServeSave ==
    /\ hs.pc = "idle"
    /\ \E i \in 1..Len(saves) :
         /\ saves[i].phase = "sent"
         /\ saves' = [saves EXCEPT ![i].phase = "serving"]
         /\ PostArrive(FALSE, saves[i].path, saves[i].content)
    /\ UNCHANGED <<isEditorOpen, session, modal, editor, loads, previewVars, vp, adapter, plugin, editMetadata>>

ClosedKeepingPanel ==
    /\ isEditorOpen' = FALSE
    /\ modal' = NoModal
    /\ editor' = NoEditor
    /\ UNCHANGED <<session, previewVars>>

\* onClose: setIsEditorOpen(false); the modal, the editor and the preview
\* panel unmount
Closed ==
    /\ isEditorOpen' = FALSE
    /\ modal' = NoModal
    /\ SetEditor(NoEditor, <<>>, mdxCompiler)
    /\ UNCHANGED <<session, mdxCompiler>>

\* setState((prev) => ({ ...prev, status: 'error', error, validation })) on
\* the instance that issued the save; nothing when it has unmounted
SaveFailed(sess, error, validation) ==
    IF Live(sess)
      THEN /\ modal' = [modal EXCEPT !.status = "error", !.error = error,
                                     !.validation = validation]
           /\ SetEditor(NoEditor, <<>>, mdxCompiler)
           /\ UNCHANGED <<isEditorOpen, session, mdxCompiler>>
      ELSE UNCHANGED <<isEditorOpen, session, modal, editor, previewVars>>

\* EditModal.handleSave after `await response.json()`
SaveResponse ==
    /\ hs.kind = "save" /\ hs.pc = "done"
    /\ \E i \in 1..Len(saves) :
         /\ saves[i].phase = "serving"
         /\ saves' = Without(saves, i)
         /\ IF ~hs.resp.success
              THEN SaveFailed(saves[i].sess, hs.resp.error, hs.resp.validation)
              ELSE Closed
    /\ hs' = NoHandler
    /\ UNCHANGED <<loads, fs, nodeEnv, remarkInstalled, vp, adapter, plugin, editMetadata>>

\* the save fetch rejects, or its response is not JSON: the catch of
\* EditModal.handleSave, which leaves `validation` as it was
SaveFails ==
    /\ \E i \in 1..Len(saves) :
         /\ \/ saves[i].phase = "sent" /\ UNCHANGED hs
            \/ /\ saves[i].phase = "serving"
               /\ hs.kind = "save" /\ hs.pc = "done"
               /\ hs' = NoHandler
         /\ saves' = Without(saves, i)
         /\ SaveFailed(saves[i].sess, ErrFetch, modal.validation)
    /\ UNCHANGED <<loads, fs, nodeEnv, remarkInstalled, vp, adapter, plugin, editMetadata>>

DismissErrorRetrying ==
    /\ isEditorOpen /\ modal.status = "error"
    /\ modal' = [modal EXCEPT !.status = "ready"]
    /\ loads' = Append(loads, Fetch(session, <<>>))
    /\ SetEditor(MountEditor(modal.content), modal.content, mdxCompiler)
    /\ UNCHANGED <<isEditorOpen, session, saves, mdxCompiler>>
    /\ ServerKept

\* the 'Continue Editing' button: status back to 'ready', which mounts a
\* new editor with initialContent={state.content}
DismissError ==
    /\ isEditorOpen /\ modal.status = "error"
    /\ modal' = [modal EXCEPT !.status = "ready"]
    /\ SetEditor(MountEditor(modal.content), modal.content, mdxCompiler)
    /\ UNCHANGED <<isEditorOpen, session, loads, saves, mdxCompiler>>
    /\ ServerKept

\* the Escape key or the modal's Close button, in any status
CloseModal ==
    /\ ModalRendered
    /\ Closed
    /\ UNCHANGED <<loads, saves>>
    /\ ServerKept

\* the editor's Cancel button: disabled={isSaving}
CancelEdit ==
    /\ isEditorOpen
    /\ editor.mounted /\ editor.isLoaded /\ ~editor.isSaving
    /\ Closed
    /\ UNCHANGED <<loads, saves>>
    /\ ServerKept

(***************************************************************************)
(* plugin.ts: editorPlugin and its transformStorage; README Quick Setup    *)
(***************************************************************************)
\* EditorPluginConfig: each member given or left out
PluginConfigs ==
    [enabled : {"undefined", "true", "false"},
     endpoint : {NoEndpoint, CustomEndpoint}]

\* what storage.read(filePath) returns: undefined, or a file with its format,
\* its absolutePath (<<>> when it has none) and its data
NoFile == [format |-> "undefined", absolutePath |-> <<>>,
           data |-> [title |-> "", _edit |-> NoEdit]]
StorageFile(format, absolutePath, title) ==
    [format |-> format, absolutePath |-> absolutePath,
     data |-> [title |-> title, _edit |-> NoEdit]]

\* storage.getFiles(): the virtual paths of the loader storage
StoragePaths == {"index.mdx", "guide.mdx"}
AbsolutePathOf(vpath) == IF vpath = "index.mdx" THEN DocPath ELSE UpperPath

\* the files a virtual path can hold before the plugin runs
StorageFiles(vpath) ==
    {NoFile,
     StorageFile("page", AbsolutePathOf(vpath), vpath),
     StorageFile("page", <<>>, vpath),
     StorageFile("meta", AbsolutePathOf(vpath), vpath)}

\* const enabled = config.enabled ?? process.env.NODE_ENV === 'development'
pluginEnabled(config, env) ==
    IF config.enabled = "undefined" THEN env = "development"
                                    ELSE config.enabled = "true"

\* const endpoint = config.endpoint ?? '/api/__fumadocs/edit'
pluginEndpoint(config) ==
    IF config.endpoint = NoEndpoint THEN DefaultEndpoint ELSE config.endpoint

transformStorageEveryFile(storage, endpoint) ==
    [f \in DOMAIN storage |->
        IF storage[f] = NoFile
          THEN storage[f]
          ELSE [storage[f] EXCEPT
                  !.data._edit = EditMetadata(storage[f].absolutePath, endpoint)]]

\* transformStorage({ storage }): the loop over storage.getFiles()
transformStorage(storage, endpoint) ==
    [f \in DOMAIN storage |->
        IF \/ storage[f] = NoFile
           \/ storage[f].format # "page"
           \/ storage[f].absolutePath = <<>>
          THEN storage[f]
          ELSE [storage[f] EXCEPT
                  !.data._edit = EditMetadata(storage[f].absolutePath, endpoint)]]

NoPlugin == [pc |-> "idle", config |-> [enabled |-> "undefined",
                                        endpoint |-> NoEndpoint],
             enabled |-> FALSE, endpoint |-> NoEndpoint,
             storage |-> [f \in StoragePaths |-> NoFile]]

\* editorPlugin(config): reads the configuration and NODE_ENV once
CreatePlugin ==
    /\ plugin.pc = "configured"
    /\ plugin' = [plugin EXCEPT !.pc = "created",
                                !.enabled = pluginEnabled(plugin.config, nodeEnv),
                                !.endpoint = pluginEndpoint(plugin.config)]
    /\ UNCHANGED <<fs, vp, adapter, editMetadata, serverVars, clientVars, previewVars>>

\* the loader runs the plugin: transformStorage when the plugin has one
\* (the plugin returned when disabled has only a name)
LoadSource ==
    /\ plugin.pc = "created"
    /\ plugin' = [plugin EXCEPT
                    !.pc = "loaded",
                    !.storage = IF plugin.enabled
                                  THEN transformStorage(@, plugin.endpoint)
                                  ELSE @]
    /\ UNCHANGED <<fs, vp, adapter, editMetadata, serverVars, clientVars, previewVars>>

(***************************************************************************)
(* Quiescent parts: what a specification that does not exercise a          *)
(* component leaves it at                                                  *)
(***************************************************************************)
NoCall == [pc |-> "idle", path |-> <<>>, exts |-> <<>>,
           result |-> [valid |-> FALSE, error |-> Undefined]]

PathIdle == vp = NoCall

ServerIdle ==
    /\ nodeEnv = "development"
    /\ remarkInstalled = TRUE
    /\ hs = NoHandler

\* export const mdxEditorAdapter = { id, name, Component }: no `validate`
mdxEditorAdapter == [id |-> "mdx-editor", validate |-> FALSE]

\* an EditorAdapter that has the optional member
\* `validate?: (content: string) => Promise<ValidationResult>`
ValidatingAdapter == [id |-> "my-editor", validate |-> TRUE]

Adapters == {mdxEditorAdapter, ValidatingAdapter}

ClientIdle ==
    /\ editMetadata = PageEdit
    /\ isEditorOpen = FALSE
    /\ session = 0
    /\ modal = NoModal
    /\ editor = NoEditor
    /\ loads = <<>>
    /\ saves = <<>>

PreviewIdle ==
    /\ mdxRemoteInstalled = FALSE
    /\ mdxCompiler = FALSE
    /\ panel = NoPanel
    /\ compiles = <<>>
    /\ doneOrder = <<>>

(***************************************************************************)
(* SpecPath: validatePath applied to every sample path, allow-list and     *)
(* storage                                                                 *)
(***************************************************************************)
FileStates == {Absent, Dir, File(ContentA)}

InitPath ==
    /\ fs \in [Files -> FileStates]
    /\ \E p \in SamplePaths, l \in AllowLists :
          vp = [pc |-> "call", path |-> p, exts |-> l,
                result |-> [valid |-> FALSE, error |-> Undefined]]
    /\ adapter = mdxEditorAdapter
    /\ plugin = NoPlugin
    /\ ServerIdle /\ ClientIdle /\ PreviewIdle

CallValidatePath ==
    /\ vp.pc = "call"
    /\ vp' = [vp EXCEPT !.pc = "returned",
                        !.result = validatePath(fs, vp.path, vp.exts)]
    /\ PathFrame

NextPath == CallValidatePath

SpecPath == InitPath /\ [][NextPath]_vars

(***************************************************************************)
(* SpecPlugin: editorPlugin created from every configuration in every      *)
(* NODE_ENV, run by the loader over every sample storage                   *)
(***************************************************************************)
InitPlugin ==
    /\ \E c \in PluginConfigs, st \in [StoragePaths -> UNION {StorageFiles(f) : f \in StoragePaths}] :
          /\ \A f \in StoragePaths : st[f] \in StorageFiles(f)
          /\ plugin = [NoPlugin EXCEPT !.pc = "configured", !.config = c,
                                       !.storage = st]
    /\ nodeEnv \in NodeEnvs
    /\ remarkInstalled = TRUE
    /\ hs = NoHandler
    /\ fs = [f \in Files |-> Absent]
    /\ adapter = mdxEditorAdapter
    /\ PathIdle /\ ClientIdle /\ PreviewIdle

NextPlugin ==
    \/ CreatePlugin
    \/ LoadSource

SpecPlugin == InitPlugin /\ [][NextPlugin]_vars

(***************************************************************************)
(* SpecServer: the route handlers, one invocation at a time, against a     *)
(* storage that other programs change                                      *)
(***************************************************************************)
InitServer ==
    /\ fs \in [Files -> {Absent, File(ContentA)}]
    /\ nodeEnv \in NodeEnvs
    /\ remarkInstalled \in BOOLEAN
    /\ hs = NoHandler
    /\ adapter = mdxEditorAdapter
    /\ plugin = NoPlugin
    /\ PathIdle /\ ClientIdle /\ PreviewIdle

NextServer ==
    \/ PostRequest
    \/ PostBody
    \/ PostValidated
    \/ GetRequest
    \/ ExternalChange

SpecServer == InitServer /\ [][NextServer]_vars

(***************************************************************************)
(* Spec: one browser with the provider, the modal and the editor (without  *)
(* @fumadocs/mdx-remote, so no preview panel), and the development server  *)
(* serving its requests one at a time                                      *)
(***************************************************************************)
Init ==
    /\ fs \in [Files -> {Absent, File(ContentA)}]
    /\ fs[UpperPath] = Absent /\ fs[TxtPath] = Absent /\ fs[RelPath] = Absent
    /\ adapter \in Adapters
    /\ plugin = NoPlugin
    /\ ServerIdle /\ PathIdle /\ ClientIdle /\ PreviewIdle

Next ==
    \/ OpenEditor
    \/ ServeLoad
    \/ LoadResponse
    \/ LoadFails
    \/ EditorLoaded
    \/ PreviewChecked
    \/ Edit
    \/ ToggleView
    \/ ClickSave
    \/ KeySave
    \/ ServeSave
    \/ PostBody
    \/ PostValidated
    \/ SaveResponse
    \/ SaveFails
    \/ DismissError
    \/ CloseModal
    \/ CancelEdit

Spec == Init /\ [][Next]_vars

(***************************************************************************)
(* SpecPreview: an open modal whose content has loaded, in a project with  *)
(* @fumadocs/mdx-remote installed: the editor, its view modes and the      *)
(* preview panel                                                           *)
(***************************************************************************)
InitPreview ==
    /\ fs = [f \in Files |-> IF f = DocPath THEN File(ContentA) ELSE Absent]
    /\ ServerIdle /\ PathIdle
    /\ adapter = mdxEditorAdapter
    /\ plugin = NoPlugin
    /\ editMetadata = PageEdit
    /\ isEditorOpen = TRUE
    /\ session = 1
    /\ modal = Modal("ready", ContentA, Undefined, NoValidation)
    /\ editor = MountEditor(ContentA)
    /\ loads = <<>>
    /\ saves = <<>>
    /\ mdxRemoteInstalled = TRUE
    /\ mdxCompiler = FALSE
    /\ panel = NoPanel
    /\ compiles = <<>>
    /\ doneOrder = <<>>

NextPreview ==
    \/ EditorLoaded
    \/ PreviewChecked
    \/ Edit
    \/ ToggleView
    \/ Tick
    \/ DebounceFire
    \/ CompileResolve
    \/ CloseModal

SpecPreview == InitPreview /\ [][NextPreview]_vars

(***************************************************************************)
(* SpecSession: one EditModal instance from its mount to its close, in a   *)
(* project with or without @fumadocs/mdx-remote: load, editor, preview     *)
(* panel and saves whose request is still in flight or has failed          *)
(***************************************************************************)
InitSession ==
    /\ fs \in [Files -> {Absent, File(ContentA)}]
    /\ fs[UpperPath] = Absent /\ fs[TxtPath] = Absent /\ fs[RelPath] = Absent
    /\ ServerIdle /\ PathIdle
    /\ adapter = mdxEditorAdapter
    /\ plugin = NoPlugin
    /\ editMetadata = PageEdit
    /\ isEditorOpen = TRUE
    /\ session = MaxSessions
    /\ modal = Modal("loading", <<>>, Undefined, NoValidation)
    /\ editor = NoEditor
    /\ loads = <<Fetch(MaxSessions, <<>>)>>
    /\ saves = <<>>
    /\ mdxRemoteInstalled \in BOOLEAN
    /\ mdxCompiler = FALSE
    /\ panel = NoPanel
    /\ compiles = <<>>
    /\ doneOrder = <<>>

NextSession ==
    \/ ServeLoad
    \/ LoadResponse
    \/ LoadFails
    \/ EditorLoaded
    \/ PreviewChecked
    \/ Edit
    \/ ToggleView
    \/ Tick
    \/ DebounceFire
    \/ CompileResolve
    \/ ClickSave
    \/ KeySave
    \/ SaveFails
    \/ CloseModal
    \/ CancelEdit

SpecSession == InitSession /\ [][NextSession]_vars

(***************************************************************************)
(* Claims about validatePath (SpecPath)                                    *)
(***************************************************************************)
Returned == vp.pc = "returned"

\* C9: every path that is not absolute is answered 'Path must be absolute',
\* whatever its extension and whether or not a resource exists there.
C9_RelativeIsNotAbsolute ==
    (Returned /\ ~isAbsolute(vp.path)) =>
        vp.result = [valid |-> FALSE, error |-> ErrNotAbsolute]

\* a relative path that exists and has an allowed extension was refused
C9_Witness ==
    /\ Returned
    /\ vp.path = RelPath
    /\ vp.exts = DefaultExtensions
    /\ existsSync(fs, RelPath)
    /\ vp.result.error = ErrNotAbsolute

\* the extension of a path: from the last "." on, empty when there is none
LastDot(p) ==
    LET dots == {i \in 1..Len(p) : p[i] = "."}
    IN IF dots = {} THEN 0 ELSE CHOOSE i \in dots : \A k \in dots : k <= i

PathExtension(p) ==
    IF LastDot(p) = 0 THEN <<>> ELSE SubSeq(p, LastDot(p), Len(p))

\* C10: for an absolute path, validatePath fails with the extension error
\* exactly when the path's extension is not in allowedExtensions, the
\* comparison ignoring case on the path and on the allow-list entries.
C10_ExtensionCaseInsensitive ==
    (Returned /\ isAbsolute(vp.path)) =>
        ( (vp.result.error = ErrExtension(vp.exts))
          <=> ~ \E i \in 1..Len(vp.exts) :
                  toLowerCase(vp.exts[i]) = toLowerCase(PathExtension(vp.path)) )

\* the path's extension, in lower case, is an entry of allowedExtensions
ExtensionAllowed(p, allowedExtensions) ==
    \E i \in 1..Len(allowedExtensions) :
        allowedExtensions[i] = toLowerCase(PathExtension(p))

\* C11: for an absolute path with an allowed extension, validatePath
\* answers 'File does not exist' when no resource is at the path and a
\* valid result when one is; a call of validatePath leaves storage as it was.
C11_MissingIsNotFound ==
    [][(vp.pc = "call" /\ vp'.pc = "returned") =>
         /\ fs' = fs
         /\ (isAbsolute(vp.path) /\ ExtensionAllowed(vp.path, vp.exts)) =>
               IF existsSync(fs, vp.path)
                 THEN vp'.result = [valid |-> TRUE, error |-> Undefined]
                 ELSE vp'.result = [valid |-> FALSE, error |-> ErrNotFound]]_vars

\* an absolute .md path at which nothing is stored was answered
\* 'File does not exist'
C11_Witness ==
    /\ Returned
    /\ vp.path = DocPath
    /\ vp.exts = DefaultExtensions
    /\ fs[DocPath] = Absent
    /\ vp.result = [valid |-> FALSE, error |-> ErrNotFound]

(***************************************************************************)
(* Claims about the route handlers (SpecServer)                            *)
(***************************************************************************)
HandlerStep == hs' # hs

\* C3: handleSaveRequest calls writeFileSync, and storage changes under it,
\* only after validatePath succeeded and validateMdxContent returned valid;
\* when either check fails storage is unchanged and success = false.
C3_WriteOnlyAfterBothChecks ==
    [][ HandlerStep =>
          /\ ("writeFileSync" \in hs'.calls \/ fs' # fs) =>
                /\ hs.kind = "save" /\ hs.pc = "validating"
                /\ "validatePath" \in hs.calls
                /\ hs.pathValidation.valid
                /\ hs'.contentValidation.valid
          /\ ( /\ hs'.kind = "save" /\ hs'.pc = "done"
               /\ "validatePath" \in hs'.calls
               /\ (~hs'.pathValidation.valid \/ ~hs'.contentValidation.valid) ) =>
                /\ fs' = fs
                /\ ~hs'.resp.success ]_vars

\* a save of content that does not parse was answered: the file is as before
C3_Witness ==
    /\ hs.kind = "save" /\ hs.pc = "done"
    /\ hs.path = DocPath /\ hs.content = ContentBad
    /\ hs.pathValidation.valid
    /\ hs.contentValidation.hasErrors
    /\ hs.resp.error = ErrInvalid
    /\ fs[DocPath] = File(ContentA)

\* C6: a save's write is all-or-nothing: after the step that calls
\* writeFileSync, failed or not, the resource holds the complete new content
\* or what it held before.
C6_WriteAllOrNothing ==
    [][ (HandlerStep /\ hs.pc = "validating" /\ "writeFileSync" \in hs'.calls) =>
          \/ fs'[hs.path] = File(utf8(hs.content))
          \/ fs'[hs.path] = fs[hs.path] ]_vars

\* C8: when NODE_ENV is not 'development' the write handler and the read
\* handler answer every request with 403 and call neither validatePath,
\* validateMdxContent, readFileSync nor writeFileSync; storage is unchanged.
C8_EnvironmentGate ==
    [][ (HandlerStep /\ nodeEnv # "development") =>
          /\ hs'.pc = "done"
          /\ hs'.resp.status = Forbidden
          /\ hs'.resp.error = ErrDevOnly
          /\ ~hs'.resp.success
          /\ hs'.resp.content = <<>>
          /\ hs'.calls = {}
          /\ fs' = fs ]_vars

\* outside development a well-formed save of valid content to an existing
\* file was refused
C8_Witness ==
    /\ nodeEnv = "test"
    /\ hs.kind = "save" /\ hs.pc = "done" /\ ~hs.malformed
    /\ hs.path = DocPath /\ hs.content = ContentB
    /\ fs[DocPath] = File(ContentA)
    /\ hs.resp.status = Forbidden

\* C12: a save never creates a resource: whatever other programs do to
\* storage while handleSaveRequest runs (the target removed after the
\* existence check, during the content validation), a path at which nothing
\* exists when the handler takes its step holds nothing after it.
C12_SaveNeverCreates ==
    [][ (HandlerStep /\ hs.kind = "save") =>
          \A p \in Files : fs[p] = Absent => fs'[p] = Absent ]_vars

(***************************************************************************)
(* Claims about the modal and the editor (Spec)                            *)
(***************************************************************************)
\* the saves of EditModal instance `sess` whose fetch has not settled
Outstanding(sess) == {i \in 1..Len(saves) : saves[i].sess = sess}

\* the step in which the live modal takes the failure of a save
SaveFailureTaken == modal.status = "saving" /\ modal'.status = "error"

\* C1: when the file loaded as A has been edited to B (B # A), B has been
\* sent by a save and that save fails, the modal is in status 'error' and
\* B is still held (by the modal's content or by a mounted editor), so that
\* B is what the editor shows when editing resumes.
C1_FailedSaveKeepsContent ==
    [][(/\ SaveFailureTaken
        /\ InnerMounted(editor)
        /\ modal.content \in Contents
        /\ editor.markdown # modal.content
        /\ \E i \in Outstanding(session) : saves[i].content = editor.markdown)
       => (/\ modal'.status = "error"
           /\ \/ modal'.content = editor.markdown
              \/ editor'.mounted /\ editor'.currentContent = editor.markdown)]_vars

\* C2: saving is single-flight: a Save click or Cmd/Ctrl+S while a save of
\* the modal is in flight starts nothing, so every modal instance has at
\* most one save request outstanding, and a save request is sent only by a
\* modal in status 'ready' with no request outstanding, which then goes to
\* 'saving'.
C2_SingleFlight ==
    [][/\ \A sess \in 1..MaxSessions : Cardinality(Outstanding(sess)') <= 1
       /\ Len(saves') > Len(saves)
            => /\ Outstanding(session) = {}
               /\ modal.status = "ready" /\ modal'.status = "saving"
               /\ Len(saves') = Len(saves) + 1
               /\ saves'[Len(saves')].sess = session]_vars

\* a save is in flight for the live modal while the editor still shows
\* unsaved changes: the state in which a further save trigger starts nothing
C2_Witness ==
    /\ isEditorOpen /\ modal.status = "saving"
    /\ InnerMounted(editor) /\ editor.hasChanges /\ editor.isSaving
    /\ Cardinality(Outstanding(session)) = 1
    /\ \E i \in Outstanding(session) : saves[i].phase = "serving"

\* the step in which the provider mounts an EditModal
Opens == ~isEditorOpen /\ isEditorOpen'

\* C13: a modal that opens is in status 'loading' and issues exactly one
\* load, of the registered file; no other step issues a load. From
\* 'loading' it becomes 'ready' only by taking a read response without
\* error, with the content of that response, and it becomes 'error' with
\* the error of the response, or with the message of the failed fetch, and
\* with empty content.
C13_OpenLoadsOnce ==
    [][/\ Opens => /\ modal' = Modal("loading", <<>>, Undefined, NoValidation)
                   /\ loads' = Append(loads, Fetch(session', <<>>))
                   /\ \A i \in 1..Len(loads) : loads[i].sess # session'
       /\ Len(loads') > Len(loads) => Opens
       /\ (modal.status = "loading" /\ modal'.status = "ready")
            => /\ hs.kind = "read" /\ hs.pc = "done" /\ hs.path = EditPath
               /\ hs.resp.error = Undefined
               /\ "readFileSync" \in hs.calls
               /\ Len(loads') < Len(loads)
               /\ modal'.content = hs.resp.content
       /\ (modal.status = "loading" /\ modal'.status = "error")
            => /\ Len(loads') < Len(loads)
               /\ modal'.content = <<>>
               /\ \/ /\ hs.kind = "read" /\ hs.pc = "done"
                     /\ hs.resp.error # Undefined
                     /\ modal'.error = hs.resp.error
                  \/ modal'.error = ErrFetch
       /\ modal.status = "loading"
            => modal'.status \in {"loading", "ready", "error", "closed"}]_vars

\* the load of a missing file was answered with an error and the modal
\* shows it
C13_Witness ==
    /\ isEditorOpen /\ session = 1
    /\ modal = Modal("error", <<>>, ErrNotFound, NoValidation)
    /\ fs[EditPath] = Absent
    /\ loads = <<>>

\* the step in which the live modal takes the success response of its save
SaveSuccessTaken ==
    /\ isEditorOpen /\ modal.status = "saving"
    /\ hs.kind = "save" /\ hs.pc = "done" /\ hs.resp.success
    /\ \E i \in Outstanding(session) :
         /\ saves[i].phase = "serving"
         /\ saves' = Without(saves, i)
    /\ modal'.status # "error"

\* C14: when a save succeeds the modal goes from 'saving' to 'ready' and
\* stays open, its editor still mounted on the saved content with the
\* unsaved-changes flag cleared.
C14_SaveSuccessStaysReady ==
    [][SaveSuccessTaken
       => (/\ isEditorOpen'
           /\ modal'.status = "ready"
           /\ editor'.mounted
           /\ ~editor'.hasChanges
           /\ editor'.currentContent = hs.content)]_vars

\* C15: dismissing the error ('Continue Editing') takes the modal from
\* 'error' to 'ready' and changes nothing else of it: its content is as
\* before, no load and no save is issued, nothing reaches the server and
\* storage is untouched.
C15_DismissOnlyChangesStatus ==
    [][(modal.status = "error" /\ modal'.status = "ready")
       => (/\ modal' = [modal EXCEPT !.status = "ready"]
           /\ isEditorOpen' /\ session' = session
           /\ loads' = loads /\ saves' = saves
           /\ hs' = hs /\ fs' = fs
           /\ editor'.mounted /\ editor'.currentContent = modal.content)]_vars

\* the error of a rejected save was dismissed: the modal is 'ready' on the
\* content it had, still carrying the error, with no request in flight
C15_Witness ==
    /\ isEditorOpen
    /\ modal.status = "ready" /\ modal.error = ErrInvalid
    /\ modal.content = ContentA
    /\ editor.mounted /\ editor.currentContent = ContentA
    /\ loads = <<>> /\ saves = <<>>

\* C17: a save request is issued only by an open modal in status 'ready'
\* whose editor has unsaved changes, carries the editor's document and puts
\* the modal in 'saving'; the server receives a write request only for a
\* request so issued; in any other status, or with no edit made, the Save
\* button and Cmd/Ctrl+S do nothing.
C17_SaveOnlyWhenReadyAndDirty ==
    [][/\ Len(saves') > Len(saves)
            => /\ isEditorOpen /\ modal.status = "ready"
               /\ editor.hasChanges
               /\ modal'.status = "saving"
               /\ saves' = Append(saves, Fetch(session, editor.markdown))
       /\ (hs' # hs /\ hs'.kind = "save" /\ hs'.pc = "json")
            => \E i \in 1..Len(saves) :
                  /\ saves[i].phase = "sent"
                  /\ hs'.path = EditPath /\ hs'.content = saves[i].content
       /\ ~(isEditorOpen /\ modal.status = "ready" /\ editor.hasChanges)
            => (~ENABLED ClickSave /\ ~ENABLED KeySave)]_vars

\* the loaded document was edited and its save is in flight
C17_Witness ==
    /\ isEditorOpen /\ modal.status = "saving"
    /\ modal.content = ContentA
    /\ editor.hasChanges /\ editor.markdown = ContentB
    /\ saves = <<Fetch(session, ContentB)>>

\* the step in which loadMDXCompiler, called by the editor's mount effect,
\* has returned
CompilerChecked == editor.previewCheck /\ editor'.mounted /\ ~editor'.previewCheck

ExplicitClose == isEditorOpen /\ ~isEditorOpen' /\ saves' = saves

\* C7: what the user typed is discarded only by an explicit close: after
\* any other step (a save succeeding or failing, a load failing, the error
\* being dismissed), an editor that held unsaved edits still holds edits,
\* or the modal's content holds them.
C7_OnlyCloseDiscardsEdits ==
    [][(/\ InnerMounted(editor) /\ editor.hasChanges
        /\ ~ExplicitClose)
       => (\/ InnerMounted(editor') /\ editor'.hasChanges
           \/ modal'.content = editor.markdown)]_vars

(***************************************************************************)
(* Claims about the preview panel (SpecPreview)                            *)
(***************************************************************************)
\* C4: the preview shown is decided by the order in which compiles were
\* started, never by the order in which they complete: while the compile
\* started last is pending the panel shows 'loading', and once it has
\* completed the panel shows its outcome, whichever older compiles complete
\* before or after it.
C4_SubmissionOrderDecides ==
    (panel.mounted /\ compiles # <<>>)
        => LET last == compiles[Len(compiles)]
           IN IF last.running
                THEN panel.preview.status = "loading"
                ELSE panel.preview = Compiled(last.src)

\* an older compile of another source completed after the latest one, and
\* the panel shows the latest one's outcome
C4_Witness ==
    /\ panel.mounted
    /\ \E a, b \in 1..Len(doneOrder) :
         /\ a < b
         /\ doneOrder[a] = Len(compiles)
         /\ doneOrder[b] < doneOrder[a]
         /\ compiles[doneOrder[b]].src # compiles[doneOrder[a]].src
         /\ panel.preview = Compiled(compiles[doneOrder[a]].src)
         /\ panel.preview # Compiled(compiles[doneOrder[b]].src)

\* the debounce timer set for an edit fires in a panel that stays mounted
BurstFires ==
    /\ panel.mounted /\ panel.timer.pending /\ panel.timer.edited
    /\ panel'.mounted /\ ~panel'.timer.pending

\* the step starts one compile of `src`
StartsCompile(src) ==
    /\ Len(compiles') = Len(compiles) + 1
    /\ compiles'[Len(compiles')].src = src
    /\ compiles'[Len(compiles')].running

\* C5 as stated: a burst of edits, each less than 300ms after the one
\* before, triggers exactly one compile, started only after 300ms without
\* a further edit, of the content of the last edit.
C5_ExactlyOneCompilePerBurst ==
    [][BurstFires
       => (/\ panel.timer.elapsed >= DebounceDelay
           /\ StartsCompile(editor.currentContent))]_vars

\* C5 amended: while the preview panel stays mounted a compile is started
\* only by the debounce timer firing, which happens only after 300ms
\* without a further edit; for a burst of edits that firing starts exactly
\* one compile, of the last edit's content, when that content differs from
\* the content compiled last, and none when it is the same.
C5_OneCompileIfContentDiffers ==
    [][/\ BurstFires
         => /\ panel.timer.elapsed >= DebounceDelay
            /\ panel.timer.value = editor.currentContent
            /\ IF editor.currentContent # panel.debounced
                 THEN StartsCompile(editor.currentContent)
                 ELSE compiles' = compiles
       /\ (panel.mounted /\ panel'.mounted /\ Len(compiles') > Len(compiles))
         => (panel.timer.pending /\ ~panel'.timer.pending)]_vars

\* a burst's timer has fired and started the compile of the edited content
C5_Witness ==
    /\ panel.mounted /\ ~panel.timer.pending /\ panel.timer.edited
    /\ panel.timer.elapsed >= DebounceDelay
    /\ Len(compiles) >= 2
    /\ LET last == compiles[Len(compiles)]
       IN /\ last.trigger = "debounce" /\ ~last.cancelled
          /\ last.src = editor.currentContent
          /\ last.src = panel.timer.value
          /\ last.src # modal.content

\* the step in which the user changes the document
Edits ==
    /\ InnerMounted(editor) /\ InnerMounted(editor')
    /\ editor'.markdown # editor.markdown

\* C18 as stated: an edit makes the new content the editor's content, sets
\* the unsaved-changes flag, hands the new content to the preview panel
\* (its debounce timer restarts with it) and leaves the modal's status as
\* it was.
C18_EditSubmitsToPreview ==
    [][Edits
       => (/\ editor'.currentContent = editor'.markdown
           /\ editor'.hasChanges
           /\ modal'.status = modal.status
           /\ panel'.mounted
           /\ panel'.timer = Timer(editor'.markdown, TRUE))]_vars

\* C18 amended: an edit makes the new content the editor's content, sets
\* the unsaved-changes flag and leaves the modal as it was; when the
\* preview panel is shown and the new content differs from the content it
\* was handed last, the new content is handed to it (its debounce timer
\* restarts with it, no compile starts yet); otherwise the panel is left as
\* it is, and a panel shown later starts by compiling the editor's content
\* of that moment.
C18_EditSubmitsWhenPanelShown ==
    [][/\ Edits
         => /\ editor'.currentContent = editor'.markdown
            /\ editor'.hasChanges
            /\ modal' = modal /\ isEditorOpen' = isEditorOpen
            /\ loads' = loads /\ saves' = saves
            /\ compiles' = compiles
            /\ IF PanelRendered(editor)
                  /\ editor'.markdown # editor.currentContent
                 THEN panel' = [panel EXCEPT
                                  !.timer = Timer(editor'.markdown, TRUE)]
                 ELSE panel' = panel
       /\ (~panel.mounted /\ panel'.mounted)
         => /\ panel'.debounced = editor'.currentContent
            /\ compiles'[Len(compiles')].src = editor'.currentContent
            /\ compiles'[Len(compiles')].running]_vars

\* an edit of the loaded document has been handed to the shown preview
\* panel, whose timer is pending with it
C18_Witness ==
    /\ modal.status = "ready" /\ modal.content = ContentA
    /\ editor.hasChanges /\ editor.currentContent = ContentB
    /\ editor.markdown = ContentB
    /\ panel.mounted /\ panel.debounced = ContentA
    /\ panel.timer = Timer(ContentB, TRUE)

(***************************************************************************)
(* Claims about one modal instance with its preview (SpecSession)          *)
(***************************************************************************)
\* C16: the modal can be closed in every status ('loading', 'ready',
\* 'saving', 'error'), and closing releases everything: no modal, editor or
\* preview panel is mounted, no debounce timer is pending and every compile
\* is marked cancelled; from then on no compile is started and the preview
\* is never updated, whatever compile completes.
C16_CloseReleases ==
    [][/\ isEditorOpen => ENABLED CloseModal
       /\ ~isEditorOpen'
            => /\ modal' = NoModal /\ editor' = NoEditor /\ panel' = NoPanel
               /\ \A i \in 1..Len(compiles') : compiles'[i].cancelled
       /\ ~isEditorOpen
            => /\ panel' = panel
               /\ Len(compiles') = Len(compiles)]_vars

\* the modal was closed with a save in flight; the compile started by the
\* debounce timer is cancelled and was the last to complete
C16_Witness ==
    /\ ~isEditorOpen
    /\ Len(saves) = 1
    /\ compiles # <<>>
    /\ compiles[Len(compiles)].trigger = "debounce"
    /\ compiles[Len(compiles)].cancelled
    /\ Len(doneOrder) = Len(compiles)
    /\ doneOrder[Len(doneOrder)] = Len(compiles)

\* a step of the preview pipeline: the debounce timer runs or fires, a
\* compile completes, or the check for the compiler finds none
PreviewPipelineStep ==
    \/ doneOrder' # doneOrder
    \/ panel.mounted /\ panel'.mounted /\ panel'.timer # panel.timer
         /\ editor'.currentContent = editor.currentContent
    \/ editor.previewCheck /\ editor'.mounted /\ ~editor'.previewCheck

\* C19: preview failures are advisory: no step of the preview pipeline,
\* whether a compile or render error or the compiler being unavailable,
\* changes the modal (status, content, error, validation), the editor's
\* document, its unsaved-changes flag or its saving flag, or any request;
\* the modal never shows a preview error.
C19_PreviewIsAdvisory ==
    [][/\ PreviewPipelineStep
         => /\ modal' = modal /\ isEditorOpen' = isEditorOpen
            /\ editor'.markdown = editor.markdown
            /\ editor'.currentContent = editor.currentContent
            /\ editor'.hasChanges = editor.hasChanges
            /\ editor'.isSaving = editor.isSaving
            /\ loads' = loads /\ saves' = saves
       /\ modal'.error \notin {ErrCompilation, ErrNoCompiler}]_vars

\* the preview shows a compilation error for the edited document while the
\* modal is 'ready' with the edit unsaved
C19_Witness ==
    /\ isEditorOpen /\ modal.status = "ready" /\ modal.error = Undefined
    /\ editor.hasChanges /\ editor.markdown = ContentBad
    /\ panel.mounted
    /\ panel.preview = Preview("error", FALSE, <<>>, ErrCompilation)

(***************************************************************************)
(* Claims about the adapter's validator (Spec)                             *)
(***************************************************************************)
\* C21: the content of a save whose path was accepted is validated by the
\* adapter's own validate when the session's adapter provides one, and not
\* by validateMdxContent; when the adapter provides none, it is validated by
\* validateMdxContent.
C21_AdapterValidatePreferred ==
    (hs.kind = "save" /\ "validatePath" \in hs.calls /\ hs.pathValidation.valid)
      => IF adapter.validate
           THEN /\ "adapter.validate" \in hs.calls
                /\ "validateMdxContent" \notin hs.calls
           ELSE "validateMdxContent" \in hs.calls

(***************************************************************************)
(* Claims about the handlers' results (SpecServer)                         *)
(***************************************************************************)
\* the step in which handleSaveRequest returns { success: true }
SaveSucceeds ==
    /\ hs.kind = "save" /\ hs.pc = "validating"
    /\ hs'.pc = "done" /\ hs'.resp.success

\* the step in which readFileContent returns { success: true, content }
ReadSucceeds ==
    /\ HandlerStep
    /\ hs'.kind = "read" /\ hs'.pc = "done" /\ hs'.resp.success

isWellFormed(str) == \A i \in 1..Len(str) : str[i] # LoneSurrogate

\* C22 as stated: a successful save of content c leaves exactly c stored at
\* the path, and a successful read returns exactly what is stored at the
\* path; so a read that follows the save with no write in between returns c.
C22_RoundTrip ==
    [][/\ SaveSucceeds => fs'[hs.path] = File(hs.content)
       /\ ReadSucceeds => /\ fs[hs'.path].kind = "file"
                          /\ hs'.resp.content = fs[hs'.path].content]_vars

\* C22 amended: a successful save of c leaves the UTF-8 encoding of c stored,
\* which reads back as c exactly when c holds no lone surrogate; a
\* successful read returns exactly what is stored.
C22_RoundTripWellFormed ==
    [][/\ SaveSucceeds
         => /\ fs'[hs.path] = File(utf8(hs.content))
            /\ isWellFormed(hs.content) => fs'[hs.path] = File(hs.content)
       /\ ReadSucceeds => /\ fs[hs'.path].kind = "file"
                          /\ hs'.resp.content = fs[hs'.path].content]_vars

\* 'bc' was read back from /a/d.md: only a save can have stored it
C22_Witness ==
    /\ hs.kind = "read" /\ hs.pc = "done" /\ hs.path = DocPath
    /\ hs.resp.success /\ hs.resp.content = ContentB
    /\ fs[DocPath] = File(ContentB)

\* the save handler has the validator's result
Validated ==
    /\ hs.kind = "save" /\ hs.pc = "done"
    /\ "validateMdxContent" \in hs.calls

ValidationResolves == hs.kind = "save" /\ hs.pc = "validating" /\ hs'.pc = "done"

\* the step in which handleSaveRequest calls validateMdxContent
ValidationStarts == hs.pc = "json" /\ hs'.pc = "validating"

C25_AcceptedIsFile ==
    (Returned /\ vp.result.valid) =>
        /\ isAbsolute(vp.path)
        /\ vp.path \in DOMAIN fs
        /\ fs[vp.path].kind = "file"

(***************************************************************************)
(* Claims about failures and the order of the checks in the handlers       *)
(* (SpecServer)                                                            *)
(***************************************************************************)
\* C26: all failures are values: every handler invocation that has finished
\* carries a response (a status and a body that is a success or names an
\* error), and no exception has propagated out of validatePath,
\* validateMdxContent, handleSaveRequest, readFileContent or a route handler.
C26_FailuresAreValues ==
    hs.pc = "done" =>
        /\ hs.resp.status \in {Ok, BadRequest, Forbidden, ServerError}
        /\ hs.resp.success \/ hs.resp.error # Undefined
        /\ hs.raised = {}

(***************************************************************************)
(* Claims about the loader plugin (SpecPlugin)                             *)
(***************************************************************************)
\* a page file with an absolutePath
Editable(file) ==
    file # NoFile /\ file.format = "page" /\ file.absolutePath # <<>>

\* C27: when the plugin is enabled (by its configuration, or by NODE_ENV
\* when the configuration leaves it out), running it gives every page file
\* that has an absolutePath _edit = {that file's absolutePath, the configured
\* endpoint, enabled: true} and leaves every other file, and everything else
\* of the page files, unchanged; when it is disabled, storage is unchanged.
C27_MetadataInjection ==
    [][(plugin.pc = "created" /\ plugin'.pc = "loaded") =>
         LET on == IF plugin.config.enabled = "undefined"
                     THEN nodeEnv = "development"
                     ELSE plugin.config.enabled = "true"
         IN \A f \in StoragePaths :
              LET before == plugin.storage[f]
                  after  == plugin'.storage[f]
              IN IF on /\ Editable(before)
                   THEN /\ after.data._edit.absolutePath = before.absolutePath
                        /\ after.data._edit.enabled
                        /\ plugin.config.endpoint # NoEndpoint
                             => after.data._edit.endpoint = plugin.config.endpoint
                        /\ after.data._edit.endpoint # NoEndpoint
                        /\ after.format = before.format
                        /\ after.absolutePath = before.absolutePath
                        /\ after.data.title = before.data.title
                   ELSE after = before]_vars

\* the loader ran an enabled plugin over a page and a meta file: the page
\* carries _edit with its own path, the meta file does not
C27_Witness ==
    /\ plugin.pc = "loaded" /\ plugin.config.endpoint = CustomEndpoint
    /\ plugin.storage["index.mdx"].data._edit =
         EditMetadata(DocPath, CustomEndpoint)
    /\ plugin.storage["guide.mdx"].format = "meta"
    /\ plugin.storage["guide.mdx"].data._edit = NoEdit

\* C28: with no endpoint configured, the endpoint the plugin injects is the
\* route the README's Quick Setup serves, '/api/fumadocs-edit', so that the
\* modal's load and save requests reach the handlers.
C28_DefaultEndpointIsServed ==
    (plugin.pc = "loaded" /\ plugin.config.endpoint = NoEndpoint) =>
        \A f \in StoragePaths :
            plugin.storage[f].data._edit # NoEdit
              => plugin.storage[f].data._edit.endpoint = QuickSetupRoute

(***************************************************************************)
(* Claims about the order of validatePath's checks (SpecPath)              *)
(***************************************************************************)
\* C29: validatePath checks absolute, then extension, then existence, and
\* reports the first check that fails: a relative path is answered 'Path
\* must be absolute' whatever its extension and whether or not it exists; an
\* absolute path whose extension is not allowed is answered with the
\* extension error whether or not it exists; in both cases the answer is the
\* same for every storage. Only a path passing both is answered by whether
\* it exists.
C29_CheckOrder ==
    Returned =>
        IF ~isAbsolute(vp.path)
          THEN /\ vp.result = [valid |-> FALSE, error |-> ErrNotAbsolute]
               /\ \A st \in [Files -> FileStates] :
                     validatePath(st, vp.path, vp.exts) = vp.result
        ELSE IF ~ExtensionAllowed(vp.path, vp.exts)
          THEN /\ vp.result = [valid |-> FALSE, error |-> ErrExtension(vp.exts)]
               /\ \A st \in [Files -> FileStates] :
                     validatePath(st, vp.path, vp.exts) = vp.result
        ELSE vp.result.valid <=> existsSync(fs, vp.path)

\* the relative path a/d.txt, with a disallowed extension and stored
\* nowhere, was answered 'Path must be absolute'
C29_Witness ==
    /\ Returned
    /\ vp.path = <<"a", "/", "d", ".", "t", "x", "t">>
    /\ vp.exts = DefaultExtensions
    /\ ~existsSync(fs, vp.path)
    /\ vp.result = [valid |-> FALSE, error |-> ErrNotAbsolute]

(***************************************************************************)
(* Claims about the order of the checks in handleSaveRequest (SpecServer)  *)
(***************************************************************************)
\* handleSaveRequest has returned a result for a request that names a path
SaveReturned ==
    /\ hs.kind = "save" /\ hs.pc = "done"
    /\ "validatePath" \in hs.calls /\ hs.raised = {}

PathErrors ==
    {ErrNotAbsolute, ErrNotFound, ErrExtension(DefaultExtensions)}

\* C30: in handleSaveRequest path validation precedes content validation:
\* for a rejected path the response is the failure with the path check's
\* message, without a validation field, and validateMdxContent is not
\* called, whatever the content; for an accepted path with content that
\* does not validate the response is success = false, 'Invalid MDX content'
\* and the validator's result as validation.
C30_PathBeforeContent ==
    SaveReturned =>
        IF ~hs.pathValidation.valid
          THEN /\ hs.pathValidation.error \in PathErrors
               /\ hs.resp = Response(BadRequest, FALSE, hs.pathValidation.error,
                                     NoValidation, <<>>)
               /\ "validateMdxContent" \notin hs.calls
               /\ hs.contentValidation = NoValidation
          ELSE /\ "validateMdxContent" \in hs.calls
               /\ tryParse(remarkInstalled, hs.content) # NoThrow
                    => hs.resp = Response(BadRequest, FALSE, ErrInvalid,
                           catchResult(tryParse(remarkInstalled, hs.content)),
                           <<>>)

\* a save of '<b' to /d.txt was answered with the extension error alone
C30_Witness ==
    /\ SaveReturned
    /\ hs.path = TxtPath /\ hs.content = ContentBad /\ remarkInstalled
    /\ hs.resp.error = ErrExtension(DefaultExtensions)
    /\ hs.resp.validation = NoValidation

(***************************************************************************)
(* SpecLive: one EditModal instance from its mount (without                *)
(* @fumadocs/mdx-remote) and the development server, in which every        *)
(* request is eventually served and answered: the server takes each        *)
(* request that has arrived and runs its handler to the end, and the       *)
(* browser runs the continuation of each fetch that has settled            *)
(***************************************************************************)
InitLive ==
    /\ fs \in [Files -> {Absent, File(ContentA)}]
    /\ fs[UpperPath] = Absent /\ fs[TxtPath] = Absent /\ fs[RelPath] = Absent
    /\ adapter = mdxEditorAdapter
    /\ plugin = NoPlugin
    /\ ServerIdle /\ PathIdle /\ PreviewIdle
    /\ editMetadata = PageEdit
    /\ isEditorOpen = TRUE
    /\ session = MaxSessions
    /\ modal = Modal("loading", <<>>, Undefined, NoValidation)
    /\ editor = NoEditor
    /\ loads = <<Fetch(MaxSessions, <<>>)>>
    /\ saves = <<>>

NextLive ==
    \/ ServeLoad
    \/ LoadResponse
    \/ LoadFails
    \/ EditorLoaded
    \/ PreviewChecked
    \/ Edit
    \/ ToggleView
    \/ ClickSave
    \/ KeySave
    \/ ServeSave
    \/ PostBody
    \/ PostValidated
    \/ SaveResponse
    \/ SaveFails
    \/ DismissError
    \/ CloseModal
    \/ CancelEdit

Responsive ==
    /\ WF_vars(ServeLoad) /\ WF_vars(LoadResponse)
    /\ WF_vars(ServeSave) /\ WF_vars(PostBody) /\ WF_vars(PostValidated)
    /\ WF_vars(SaveResponse)

SpecLive == InitLive /\ [][NextLive]_vars /\ Responsive

(***************************************************************************)
(* Claims about progress (SpecLive)                                        *)
(***************************************************************************)
\* C31: when every request is eventually answered or fails in transport, a
\* modal in 'loading' eventually is 'ready' or 'error' (or has been closed),
\* and a modal in 'saving' eventually is in 'error' or has been closed by
\* the successful save (or by the user): no modal stays in 'loading' or in
\* 'saving' forever.
C31_SessionProgress ==
    /\ (modal.status = "loading") ~> (modal.status \in {"ready", "error", "closed"})
    /\ (modal.status = "saving") ~> (modal.status \in {"error", "closed"})

\* a save was answered with a rejection: the modal went from 'saving' to
\* 'error'; no request is outstanding
C31_Witness ==
    /\ isEditorOpen /\ modal.status = "error" /\ modal.error = ErrInvalid
    /\ loads = <<>> /\ saves = <<>>

(***************************************************************************)
(* SpecPreviewLive: SpecPreview in which time passes, due timers fire,     *)
(* compiles complete and the lazy imports of the editor resolve            *)
(***************************************************************************)
PreviewFairness ==
    /\ WF_vars(EditorLoaded) /\ WF_vars(PreviewChecked)
    /\ WF_vars(Tick) /\ WF_vars(DebounceFire) /\ WF_vars(CompileResolve)

SpecPreviewLive == InitPreview /\ [][NextPreview]_vars /\ PreviewFairness

(***************************************************************************)
(* Claims about the preview's progress (SpecPreviewLive)                   *)
(***************************************************************************)
\* the due timer's compile cannot start because the run has used up the
\* compiles the model allows
OutOfCompiles ==
    /\ panel.mounted /\ panel.timer.pending
    /\ panel.timer.value # panel.debounced
    /\ Len(compiles) >= MaxCompiles

\* C32: if from some point on the preview panel stays shown and the edited
\* content stays c (edits have stopped, the session stays open), then from
\* some point on the preview is no longer 'loading' and shows the outcome of
\* compiling c, its rendering or its error, and stays on it (in a run that
\* has not used up the compiles the model allows).
C32_PreviewConverges ==
    \A c \in Contents :
        <>[](PanelRendered(editor) /\ editor.currentContent = c)
          => \/ <>[](panel.preview = Compiled(c))
             \/ <>[]OutOfCompiles

\* after an edit to '<b' its compile, started by the debounce timer, has
\* completed and the preview shows its error; nothing is pending
C32_Witness ==
    /\ PanelRendered(editor) /\ editor.currentContent = ContentBad
    /\ editor.hasChanges
    /\ panel.mounted /\ ~panel.timer.pending
    /\ panel.preview = Compiled(ContentBad)
    /\ \A i \in 1..Len(compiles) : ~compiles[i].running

(***************************************************************************)
(* Claims about superseded compiles (SpecPreview)                          *)
(***************************************************************************)
\* the step in which the compile() call numbered i returns
Completes(i) == doneOrder' = Append(doneOrder, i)

C36_ErrorAndValidationAgree ==
    (modal.status = "error" /\ modal.validation.hasErrors)
        => modal.error = ErrInvalid

\* a transport failure of a later save shown with the validation errors of
\* an earlier rejected save
C36_StaleValidation ==
    /\ modal.status = "error"
    /\ modal.error = ErrFetch
    /\ modal.validation.hasErrors
    /\ modal.validation.errors # <<>>

\* the save request being served was sent by a modal instance that has
\* been closed since
ServingClosed(i) ==
    /\ i \in 1..Len(saves)
    /\ saves[i].phase = "serving"
    /\ ~Live(saves[i].sess)

\* C37: nothing is written to storage for a modal that has been closed, and
\* the response of a save taken after its modal was closed changes no
\* state: while the request of a closed modal is being served the file
\* system does not change, and the step that takes its response leaves the
\* provider, the modal and the editor as they are.
C37_NoWriteAfterClose ==
    [][\A i \in 1..Len(saves) :
         ServingClosed(i)
           => /\ fs' = fs
              /\ (saves' = Without(saves, i)
                    => UNCHANGED <<isEditorOpen, modal, editor>>)]_vars

\* the load of the mounted modal has succeeded: state.content is '' from
\* the mount until loadContent sets it from a response with content, a
\* failed load leaves it '', and every document the model stores is
\* non-empty
LoadSucceeded == modal.content \in Contents

\* C38: a save is issued only by a modal whose load succeeded: a modal
\* whose load failed never reaches status 'saving', also after the error
\* was dismissed, and no save request in flight comes from it.
C38_SaveOnlyAfterLoad ==
    /\ modal.status = "saving" => LoadSucceeded
    /\ \A i \in 1..Len(saves) : Live(saves[i].sess) => LoadSucceeded

(***************************************************************************)
(* Claims about the view modes and saving (SpecSession)                    *)
(***************************************************************************)
\* a save request is sent in this step
SaveIssued == Len(saves') = Len(saves) + 1

\* the user can ask for a save: the editor is loaded, has changes and is
\* not saving, so the Save button is enabled and Cmd/Ctrl+S calls handleSave
SaveRequestable ==
    /\ editor.mounted /\ editor.isLoaded
    /\ editor.hasChanges /\ ~editor.isSaving
    /\ Len(saves) < MaxSaves

\* C39: changing the view mode never changes the edited content: the
\* content a save sends is the content of the last edit (currentContent,
\* which the preview is compiled from), whatever view modes were chosen in
\* between, and in every view mode a save asked for while the editor has
\* changes is issued.
C39_ViewModeKeepsContent ==
    [][/\ SaveIssued
            => saves'[Len(saves')].content = editor.currentContent
       /\ SaveRequestable => ENABLED ClickSave]_vars

(***************************************************************************)
(* EditorProvider.tsx: useRegisterEditable, with the modal's render        *)
(* condition and the re-run of loadContent when the metadata changes       *)
(***************************************************************************)
\* load fetches in flight at once
MaxLoads == 2

\* what a page passes to useRegisterEditable: the EditMetadata of one of two
\* documents, the second enabled or not
PageMetadata ==
    {EditMetadata(DocPath, DefaultEndpoint),
     EditMetadata(UpperPath, DefaultEndpoint),
     [EditMetadata(UpperPath, DefaultEndpoint) EXCEPT !.enabled = FALSE]}

\* the effect of useRegisterEditable when a registering page mounts:
\* context.setEditMetadata(metadata ?? null). With isEditorOpen still true
\* the provider renders <EditModal>, which mounts in 'loading' and loads.
Register ==
    /\ editMetadata = NoEdit
    /\ \E m \in PageMetadata :
         /\ editMetadata' = m
         /\ IF isEditorOpen
              THEN /\ session < MaxSessions /\ Len(loads) < MaxLoads
                   /\ session' = session + 1
                   /\ modal' = Modal("loading", <<>>, Undefined, NoValidation)
                   /\ loads' = Append(loads, FetchFor(session + 1, <<>>,
                                                     m.absolutePath))
              ELSE UNCHANGED <<session, modal, loads>>
    /\ UNCHANGED <<isEditorOpen, editor, saves, previewVars>>
    /\ UNCHANGED <<fs, nodeEnv, remarkInstalled, hs, vp, adapter, plugin>>

\* the cleanup of useRegisterEditable when the page unmounts and no
\* registering page takes its place: context.setEditMetadata(null). The
\* modal is no longer rendered; isEditorOpen is left as it is.
Unregister ==
    /\ editMetadata # NoEdit
    /\ editMetadata' = NoEdit
    /\ IF isEditorOpen
         THEN /\ modal' = NoModal
              /\ SetEditor(NoEditor, <<>>, mdxCompiler)
              /\ UNCHANGED mdxCompiler
         ELSE UNCHANGED <<modal, editor, previewVars>>
    /\ UNCHANGED <<isEditorOpen, session, loads, saves>>
    /\ UNCHANGED <<fs, nodeEnv, remarkInstalled, hs, vp, adapter, plugin>>

\* `metadata` changes, or another registering page takes the place of the
\* page: the cleanup and the effect run in one commit, so the provider
\* renders once with the new metadata. A rendered modal stays mounted with
\* its state, and its loadContent effect runs again when absolutePath
\* changed (deps: absolutePath, endpoint).
Reregister ==
    /\ editMetadata # NoEdit
    /\ \E m \in PageMetadata :
         /\ m # editMetadata
         /\ editMetadata' = m
         /\ IF isEditorOpen /\ m.absolutePath # editMetadata.absolutePath
              THEN /\ Len(loads) < MaxLoads
                   /\ loads' = Append(loads, FetchFor(session, <<>>,
                                                     m.absolutePath))
              ELSE UNCHANGED loads
    /\ UNCHANGED <<isEditorOpen, session, modal, editor, saves, previewVars>>
    /\ UNCHANGED <<fs, nodeEnv, remarkInstalled, hs, vp, adapter, plugin>>

(***************************************************************************)
(* SpecProvider: the provider with pages that register and unregister two  *)
(* documents, the modal and the editor, and the development server         *)
(***************************************************************************)
InitProvider ==
    /\ fs = [f \in Files |-> IF f = DocPath THEN File(ContentA)
                             ELSE IF f = UpperPath THEN File(ContentB)
                             ELSE Absent]
    /\ adapter = mdxEditorAdapter
    /\ plugin = NoPlugin
    /\ ServerIdle /\ PathIdle /\ PreviewIdle
    /\ editMetadata = NoEdit
    /\ isEditorOpen = FALSE
    /\ session = 0
    /\ modal = NoModal
    /\ editor = NoEditor
    /\ loads = <<>>
    /\ saves = <<>>

\* the first edit of a mounted editor
FirstEdit == ~editor.hasChanges /\ Edit

\* a Save click while no save request is in flight
SingleSave == saves = <<>> /\ ClickSave

NextProvider ==
    \/ Register
    \/ Unregister
    \/ Reregister
    \/ OpenEditor
    \/ ServeLoad
    \/ LoadResponse
    \/ LoadFails
    \/ EditorLoaded
    \/ FirstEdit
    \/ SingleSave
    \/ ServeSave
    \/ PostBody
    \/ PostValidated
    \/ SaveResponse
    \/ CloseModal

SpecProvider == InitProvider /\ [][NextProvider]_vars

(***************************************************************************)
(* Claims about the provider's metadata and the modal (SpecProvider)       *)
(***************************************************************************)
\* the step in which the load fetch i ends and the modal's state changes
LoadApplied(i) == loads' = Without(loads, i) /\ modal' # modal

\* C34: the outcome of a load is applied to the modal only if the load was
\* issued for the absolutePath registered now and the modal is still in
\* status 'loading': the outcome of a load for a path registered earlier,
\* or one that arrives late, changes nothing, so it cannot put the content
\* of another document than the one a save writes to into the modal, nor
\* replace status 'saving' or 'error'.
C34_LoadAppliedOnlyWhenCurrent ==
    [][\A i \in 1..Len(loads) :
         LoadApplied(i)
           => /\ loads[i].path = editMetadata.absolutePath
              /\ modal.status = "loading"]_vars

\* C35: a modal exists only if the user called openEditor for the metadata
\* registered now, and that metadata is enabled: a modal is mounted only by
\* the step that sets isEditorOpen, the metadata of a rendered modal is
\* enabled, and a modal does not stay while the registered metadata
\* changes.  After the edited page unregisters, registering a page (enabled
\* or not) mounts no modal.
C35_ModalOnlyByOpenEditor ==
    [][/\ (~ModalRendered /\ ModalRendered')
            => (~isEditorOpen /\ isEditorOpen' /\ editMetadata' = editMetadata)
       /\ ModalRendered' => editMetadata'.enabled
       /\ (ModalRendered /\ ModalRendered')
            => editMetadata' = editMetadata]_vars

====
